---- MODULE Spec2Model ----
(***************************************************************************)
(* Model of the owl observability library: the status code taxonomy, the   *)
(* semantic error, its options and its wire form, the status translators,  *)
(* the HTTP and gRPC server interceptors, the HTTP and gRPC client         *)
(* interceptors with CheckResponse, and the safe goroutine starter Go.     *)
(*                                                                         *)
(* Go strings and byte slices are sequences of one-character strings, so   *)
(* that substring, escaping and decoding questions are decided by          *)
(* computation.  A run of 2^k filler bytes of a body is one element, so    *)
(* that bodies longer than the 64 KiB read limit can be written down.      *)
(*                                                                         *)
(* Two specifications share the variables:                                 *)
(*   SpecConv  applies the pure functions (translators, Code.String,       *)
(*             Code.UnmarshalJSON, Error.MarshalJSON, Problem with         *)
(*             options, errors.Is) to enumerated inputs, alone or chained; *)
(*   Spec      runs one call: through HTTPFactory.Wrap (followed by the    *)
(*             client receiving and checking the response), through the    *)
(*             gRPC UnaryServerInterceptor, through HTTPClient.RoundTrip   *)
(*             against a freely chosen upstream, through the gRPC          *)
(*             UnaryClientInterceptor, or of Go with a context that        *)
(*             another goroutine may cancel at any moment; one             *)
(*             collaborator call per step.                                 *)
(*                                                                         *)
(* A handler behind Wrap may write a header and body through the           *)
(* responseWriter before it returns or panics; on the underlying writer    *)
(* the first header write wins.                                            *)
(*                                                                         *)
(* Time is counted in clock ticks.  In the server interceptors trace       *)
(* extraction takes no time or MaxExtractTicks ticks and the handler       *)
(* HandlerTicks; every other step takes no time.  The timer variables read *)
(* 0 until they are assigned.                                              *)
(*                                                                         *)
(* src/safe.go holds two versions of Go; the model follows the later one   *)
(* (lines 64-100), which checks the context and guards the logging call.   *)
(* Functions supplied by the user (handlers, tasks, the panic handler) may *)
(* panic; a Logger may panic only where Go's recovery calls it; a Monitor  *)
(* never does.                                                             *)
(*                                                                         *)
(* Not represented: the duration computed by the client interceptors, the  *)
(* content of the trace context, SetLogger / SetPanicHandler called while  *)
(* a goroutine is recovering, a nil context, panic values that recover()   *)
(* reports as nil, typed-nil *Error and *Code values, Details values that  *)
(* json.Marshal                                                            *)
(* rejects, errors that wrap an RPC status error (status.FromError is      *)
(* applied only to errors that carry the status themselves or carry none), *)
(* strings that are not valid UTF-8, and, in decoded bodies, arrays,       *)
(* negative or fractional numbers, \u escapes other than those             *)
(* encoding/json writes for < > &, and keys that match a field only up to  *)
(* letter case.                                                            *)
(***************************************************************************)
EXTENDS Integers, Sequences, FiniteSets, TLC

VARIABLES
    fn,         \* translator harness: the functions applied so far, in order
    arg,        \* translator harness: the value the chain started from
    res,        \* translator harness: the current value
    transport,  \* what the call goes through: "http" | "grpc" | "httpclient" |
                \* "grpcclient" | "go"
    pc,         \* position of the call inside the interceptor
    handler,    \* behaviour of the wrapped handler for this call
    w,          \* the underlying http.ResponseWriter (what the client gets)
    rwStatus,   \* responseWriter.status of the wrapper handed to the handler
    logs,       \* calls received by the Logger, in order
    metrics,    \* calls received by Counter / Histogram, in order
    ret,        \* what the gRPC interceptor returned to its caller
    upstream,   \* client side: what the base transport / invoker does
    resp,       \* client side: the *http.Response the caller holds
    clogs,      \* client side: calls received by the client's Logger
    out,        \* client side: results returned to the caller so far
    now,        \* the wall clock, in ticks
    start,      \* server interceptors: the clock reading kept by the timer
    duration,   \* server interceptors: the duration computed from the timer
    ctxDone,    \* owl.Go: the context passed to Go has been cancelled
    globals,    \* owl.Go: the global logger and panic handler installed
    goroutine,  \* owl.Go: position of the goroutine spawned by Go
    checks,     \* owl.Go: what each ctx.Err() check observed, in order
    handled     \* owl.Go: values the panic handler was called with, in order

convVars == <<fn, arg, res>>
callVars == <<transport, pc, handler, w, rwStatus, logs, metrics, ret>>
clientVars == <<upstream, resp, clogs, out>>
clockVars == <<now, start, duration>>
goVars == <<ctxDone, globals, goroutine, checks, handled>>
vars ==
    <<fn, arg, res, transport, pc, handler, w, rwStatus, logs, metrics, ret,
      upstream, resp, clogs, out, now, start, duration, ctxDone, globals,
      goroutine, checks, handled>>

----------------------------------------------------------------------------
(* Bounds *)

MaxStrLen == 2      \* longest message / JSON string drawn by the harness
MaxMsgLen == 1      \* longest message of an error returned by a handler
MaxStatus == 1000   \* largest HTTP status handed to FromHTTPStatus
MaxCode == 505      \* largest numeric Code handed to String / ToHTTPStatus
MaxCalls == 3       \* longest chain of translator calls applied to one input
MaxGRPCCode == 17   \* largest RPC code handed to FromGRPCStatus
MaxOpts == 2        \* most options handed to one Problem call
MaxExtractTicks == 1    \* longest time trace extraction takes, in clock ticks

----------------------------------------------------------------------------
(* Strings *)

Chars == {"O", "K", "\""}

Str(n) == UNION {[1..k -> Chars] : k \in 0..n}

\* strings.Contains(s, sub)
Contains(s, sub) ==
    \E i \in 0..(Len(s) - Len(sub)) : SubSeq(s, i + 1, i + Len(sub)) = sub

RECURSIVE Flatten(_)
Flatten(ss) == IF ss = <<>> THEN <<>> ELSE Head(ss) \o Flatten(Tail(ss))

----------------------------------------------------------------------------
(* Status code taxonomy *)

CodeUnknown == 0
CodeOK == 200
CodeInvalid == 400
CodeUnauthorized == 401
CodePermissionDenied == 403
CodeNotFound == 404
CodeInternal == 500
CodeUnavailable == 503
CodeDeadlineExceeded == 504

DefinedCodes ==
    {CodeUnknown, CodeOK, CodeInvalid, CodeUnauthorized, CodePermissionDenied,
     CodeNotFound, CodeInternal, CodeUnavailable, CodeDeadlineExceeded}

\* Codes with an exact HTTP mapping: every defined code but Unknown.
MappedCodes == DefinedCodes \ {CodeUnknown}

Codes == 0..MaxCode

String(c) ==
    CASE c = CodeOK -> <<"O", "K">>
      [] c = CodeInvalid -> <<"I", "N", "V", "A", "L", "I", "D">>
      [] c = CodeUnauthorized ->
            <<"U", "N", "A", "U", "T", "H", "O", "R", "I", "Z", "E", "D">>
      [] c = CodePermissionDenied ->
            <<"P", "E", "R", "M", "I", "S", "S", "I", "O", "N", "_",
              "D", "E", "N", "I", "E", "D">>
      [] c = CodeNotFound -> <<"N", "O", "T", "_", "F", "O", "U", "N", "D">>
      [] c = CodeInternal -> <<"I", "N", "T", "E", "R", "N", "A", "L">>
      [] c = CodeUnavailable ->
            <<"U", "N", "A", "V", "A", "I", "L", "A", "B", "L", "E">>
      [] c = CodeDeadlineExceeded ->
            <<"D", "E", "A", "D", "L", "I", "N", "E", "_",
              "E", "X", "C", "E", "E", "D", "E", "D">>
      [] OTHER -> <<"U", "N", "K", "N", "O", "W", "N">>

----------------------------------------------------------------------------
(* encoding/json: string literals *)

\* The escape encoding/json writes for one character of a string
\* (HTML escaping is on for json.Marshal and json.NewEncoder).
EscapeChar(ch) ==
    CASE ch = "\"" -> <<"\\", "\"">>
      [] ch = "\\" -> <<"\\", "\\">>
      [] ch = "\n" -> <<"\\", "n">>
      [] ch = "<" -> <<"\\", "u", "0", "0", "3", "c">>
      [] ch = ">" -> <<"\\", "u", "0", "0", "3", "e">>
      [] ch = "&" -> <<"\\", "u", "0", "0", "2", "6">>
      [] OTHER -> <<ch>>

\* json.Marshal of a Go string
Quote(s) == <<"\"">> \o Flatten([i \in 1..Len(s) |-> EscapeChar(s[i])]) \o <<"\"">>

\* Result of Unescape for a body that is not a valid JSON string body.
Bad == <<"!bad">>

\* The body of a JSON string literal (between the quotes), unescaped.
RECURSIVE Unescape(_)
Unescape(s) ==
    IF s = <<>> THEN <<>>
    ELSE IF Head(s) = "\"" THEN Bad
    ELSE IF Head(s) # "\\" THEN
        LET r == Unescape(Tail(s)) IN IF r = Bad THEN Bad ELSE <<Head(s)>> \o r
    ELSE IF Len(s) < 2 THEN Bad
    ELSE LET e == s[2] IN
        IF e \in {"\"", "\\", "/"} THEN
            LET r == Unescape(SubSeq(s, 3, Len(s))) IN
            IF r = Bad THEN Bad ELSE <<e>> \o r
        ELSE IF e = "n" THEN
            LET r == Unescape(SubSeq(s, 3, Len(s))) IN
            IF r = Bad THEN Bad ELSE <<"\n">> \o r
        ELSE IF e = "u" /\ Len(s) >= 6 THEN
            LET h == SubSeq(s, 3, 6)
                ch == CASE h = <<"0", "0", "3", "c">> -> "<"
                        [] h = <<"0", "0", "3", "e">> -> ">"
                        [] h = <<"0", "0", "2", "6">> -> "&"
                        [] OTHER -> "!bad"
                r == Unescape(SubSeq(s, 7, Len(s)))
            IN IF ch = "!bad" \/ r = Bad THEN Bad ELSE <<ch>> \o r
        ELSE Bad

\* json.Unmarshal(b, &s) for a Go string s: ok tells whether it returned nil.
UnmarshalString(b) ==
    IF b = <<"n", "u", "l", "l">> THEN [ok |-> TRUE, s |-> <<>>]
    ELSE IF Len(b) >= 2 /\ b[1] = "\"" /\ b[Len(b)] = "\"" THEN
        LET u == Unescape(SubSeq(b, 2, Len(b) - 1)) IN
        IF u = Bad THEN [ok |-> FALSE, s |-> <<>>] ELSE [ok |-> TRUE, s |-> u]
    ELSE [ok |-> FALSE, s |-> <<>>]

\* Variant of UnmarshalJSON: only the symbols of the HTTP client errors are
\* recognized.
UnmarshalJSONClientOnly(c, b) ==
    LET d == UnmarshalString(b) IN
    IF ~d.ok THEN [ok |-> FALSE, c |-> c]
    ELSE [ok |-> TRUE,
          c |-> CASE d.s = <<"O", "K">> -> CodeOK
                  [] d.s = <<"I", "N", "V", "A", "L", "I", "D">> -> CodeInvalid
                  [] d.s = <<"N", "O", "T", "_", "F", "O", "U", "N", "D">> -> CodeNotFound
                  [] OTHER -> CodeUnknown]

\* (c *Code).UnmarshalJSON(b): c is the value held before the call.
UnmarshalJSON(c, b) ==
    LET d == UnmarshalString(b) IN
    IF ~d.ok THEN [ok |-> FALSE, c |-> c]
    ELSE [ok |-> TRUE,
          c |-> CASE d.s = <<"O", "K">> -> CodeOK
                  [] d.s = <<"I", "N", "V", "A", "L", "I", "D">> -> CodeInvalid
                  [] d.s = <<"U", "N", "A", "U", "T", "H", "O", "R", "I", "Z", "E", "D">>
                        -> CodeUnauthorized
                  [] d.s = <<"P", "E", "R", "M", "I", "S", "S", "I", "O", "N", "_",
                             "D", "E", "N", "I", "E", "D">> -> CodePermissionDenied
                  [] d.s = <<"N", "O", "T", "_", "F", "O", "U", "N", "D">> -> CodeNotFound
                  [] d.s = <<"I", "N", "T", "E", "R", "N", "A", "L">> -> CodeInternal
                  [] d.s = <<"U", "N", "A", "V", "A", "I", "L", "A", "B", "L", "E">>
                        -> CodeUnavailable
                  [] d.s = <<"D", "E", "A", "D", "L", "I", "N", "E", "_",
                             "E", "X", "C", "E", "E", "D", "E", "D">> -> CodeDeadlineExceeded
                  [] OTHER -> CodeUnknown]

----------------------------------------------------------------------------
(* Errors *)

\* The nil error.
NilErr == [kind |-> "nil"]

\* errors.New(text): an error that is not and does not wrap an *Error.
PlainErr(text) == [kind |-> "plain", text |-> text]

\* fmt.Errorf("...%w", inner): a non-*Error wrapper around inner.
WrapErr(inner) == [kind |-> "wrap", inner |-> inner]

\* &Error{...}
SemErr(code, msg, safeMsg, op, err, details) ==
    [kind |-> "sem", Code |-> code, Msg |-> msg, SafeMsg |-> safeMsg,
     Op |-> op, Err |-> err, Details |-> details]

\* A nil / empty Details map.
NoDetails == <<>>

\* Problem(code) with no options.
Problem(code) == SemErr(code, <<>>, <<>>, <<>>, NilErr, NoDetails)

\* (e *Error).Unwrap()
Unwrap(e) == e.Err

\* A Code value used as an error (Code implements error).
CodeErr(c) == [kind |-> "code", Code |-> c]

\* A *Code used as an errors.Is target.
CodePtr(c) == [kind |-> "codeptr", Code |-> c]

\* An error whose dynamic type is not comparable (a slice type with an
\* Error method) and has no Is and no Unwrap method.
SliceErr(text) == [kind |-> "slice", text |-> text]

\* errors.Join(a, b): nil arguments are dropped; nil when none is left.
Join(a, b) ==
    LET errs == SelectSeq(<<a, b>>, LAMBDA x : x # NilErr) IN
    IF errs = <<>> THEN NilErr ELSE [kind |-> "join", errs |-> errs]

\* errors.As(err, &e) with e of type *Error: the first *Error on err's
\* Unwrap tree (depth first), or NilErr when As returns false.
RECURSIVE AsError(_), AsErrorIn(_, _)
AsErrorIn(errs, i) ==
    IF i > Len(errs) THEN NilErr
    ELSE IF AsError(errs[i]) # NilErr THEN AsError(errs[i])
    ELSE AsErrorIn(errs, i + 1)

AsError(err) ==
    CASE err.kind = "sem" -> err
      [] err.kind = "wrap" -> AsError(err.inner)
      [] err.kind = "join" -> AsErrorIn(err.errs, 1)
      [] OTHER -> NilErr

\* Variant of Is: a *Code target is not looked at.
IsValueOnly(e, target) ==
    IF target.kind = "code" THEN e.Code = target.Code ELSE FALSE

\* (e *Error).Is(target)
Is(e, target) ==
    IF target.kind = "code" THEN e.Code = target.Code
    ELSE IF target.kind = "codeptr" THEN e.Code = target.Code
    ELSE FALSE

\* Whether the dynamic type of an error value supports ==.
Comparable(x) == x.kind # "slice"

\* errors.Is(err, target).  Errors with equal fields stand for the same
\* object, so == on pointers is equality of the records.
RECURSIVE IsTree(_, _)
IsTree(err, target) ==
    IF Comparable(target) /\ err = target THEN TRUE
    ELSE IF err.kind = "sem" /\ Is(err, target) THEN TRUE
    ELSE CASE err.kind = "sem" ->
                IF Unwrap(err) = NilErr THEN FALSE ELSE IsTree(Unwrap(err), target)
           [] err.kind = "wrap" -> IsTree(err.inner, target)
           [] err.kind = "join" -> \E i \in DOMAIN err.errs : IsTree(err.errs[i], target)
           [] OTHER -> FALSE

ErrorsIs(err, target) ==
    IF err = NilErr \/ target = NilErr THEN err = target ELSE IsTree(err, target)

\* The options of Problem, each applied to the error built so far.
WithMsg(e, msg) == [e EXCEPT !.Msg = msg]

WithSafeMsg(e, msg) == [e EXCEPT !.SafeMsg = msg]

WithOp(e, op) == [e EXCEPT !.Op = op]

\* Variant of WithErr: the new cause replaces the one already held.
WithErrReplace(e, err) == [e EXCEPT !.Err = err]

WithErr(e, err) ==
    IF e.Err # NilErr THEN [e EXCEPT !.Err = Join(e.Err, err)]
    ELSE [e EXCEPT !.Err = err]

WithDetails(e, details) ==
    [e EXCEPT !.Details =
        [k \in DOMAIN e.Details \cup DOMAIN details |->
            IF k \in DOMAIN details THEN details[k] ELSE e.Details[k]]]

\* opt(e) for an option value o = [opt |-> name, val |-> argument].
ApplyOption(e, o) ==
    CASE o.opt = "WithMsg" -> WithMsg(e, o.val)
      [] o.opt = "WithSafeMsg" -> WithSafeMsg(e, o.val)
      [] o.opt = "WithOp" -> WithOp(e, o.val)
      [] o.opt = "WithErr" -> WithErr(e, o.val)
      [] o.opt = "WithDetails" -> WithDetails(e, o.val)

\* Problem(code, opts...): the loop over opts, from the given index on.
RECURSIVE ApplyOptions(_, _, _)
ApplyOptions(e, opts, i) ==
    IF i > Len(opts) THEN e ELSE ApplyOptions(ApplyOption(e, opts[i]), opts, i + 1)

ProblemWith(code, opts) == ApplyOptions(Problem(code), opts, 1)

----------------------------------------------------------------------------
(* Status translators *)

\* Variant of ToHTTPStatus: a code outside the table is used as the status.
ToHTTPStatusNumeric(err) ==
    IF err.kind = "nil" THEN 200
    ELSE LET e == AsError(err) IN
        IF e.kind = "sem" THEN
            CASE e.Code = CodeUnavailable -> 503
              [] e.Code = CodeDeadlineExceeded -> 504
              [] OTHER -> e.Code
        ELSE 500

ToHTTPStatus(err) ==
    IF err.kind = "nil" THEN 200
    ELSE LET e == AsError(err) IN
        IF e.kind = "sem" THEN
            CASE e.Code = CodeOK -> 200
              [] e.Code = CodeInvalid -> 400
              [] e.Code = CodeUnauthorized -> 401
              [] e.Code = CodePermissionDenied -> 403
              [] e.Code = CodeNotFound -> 404
              [] e.Code = CodeUnavailable -> 503
              [] e.Code = CodeDeadlineExceeded -> 504
              [] e.Code = CodeInternal -> 500
              [] OTHER -> 500
        ELSE 500

\* Variant of FromHTTPStatus: no case for 504.
FromHTTPStatusNoTimeout(code) ==
    CASE code \in {200, 201, 202, 204} -> CodeOK
      [] code \in {400, 401, 403, 404, 503, 500} -> code
      [] OTHER ->
            IF code >= 400 /\ code < 500 THEN CodeInvalid
            ELSE IF code >= 500 THEN CodeInternal
            ELSE CodeUnknown

\* Variant of FromHTTPStatus: the generic 5xx range ends at 599.
FromHTTPStatusClosedRange(code) ==
    CASE code \in {200, 201, 202, 204} -> CodeOK
      [] code \in {400, 401, 403, 404, 503, 504, 500} -> code
      [] OTHER ->
            IF code >= 400 /\ code < 500 THEN CodeInvalid
            ELSE IF code >= 500 /\ code < 600 THEN CodeInternal
            ELSE CodeUnknown

\* Variant of FromHTTPStatus: a 4xx status without a case of its own is not
\* classified.
FromHTTPStatusExactOnly(code) ==
    CASE code \in {200, 201, 202, 204} -> CodeOK
      [] code \in {400, 401, 403, 404, 503, 504, 500} -> code
      [] OTHER -> IF code >= 500 THEN CodeInternal ELSE CodeUnknown

FromHTTPStatus(code) ==
    CASE code \in {200, 201, 202, 204} -> CodeOK
      [] code = 400 -> CodeInvalid
      [] code = 401 -> CodeUnauthorized
      [] code = 403 -> CodePermissionDenied
      [] code = 404 -> CodeNotFound
      [] code = 503 -> CodeUnavailable
      [] code = 504 -> CodeDeadlineExceeded
      [] code = 500 -> CodeInternal
      [] OTHER ->
            IF code >= 400 /\ code < 500 THEN CodeInvalid
            ELSE IF code >= 500 THEN CodeInternal
            ELSE CodeUnknown

----------------------------------------------------------------------------
(* Wire form of an *Error *)

\* Keys a Details map may hold, in the order encoding/json writes map keys.
DetailKeys == << <<"a">>, <<"b">> >>

DetailMaps(vals) ==
    UNION {[D -> vals] : D \in SUBSET {DetailKeys[i] : i \in 1..Len(DetailKeys)}}

\* json.Marshal of a map[string]any holding strings: keys sorted.
RECURSIVE MarshalMapFrom(_, _, _)
MarshalMapFrom(d, i, first) ==
    IF i > Len(DetailKeys) THEN <<>>
    ELSE IF DetailKeys[i] \in DOMAIN d THEN
        (IF first THEN <<>> ELSE <<",">>)
            \o Quote(DetailKeys[i]) \o <<":">> \o Quote(d[DetailKeys[i]])
            \o MarshalMapFrom(d, i + 1, FALSE)
    ELSE MarshalMapFrom(d, i + 1, first)

MarshalMap(d) == <<"{">> \o MarshalMapFrom(d, 1, TRUE) \o <<"}">>

\* Variant of MarshalJSON: the message falls back to the internal message.
MarshalJSONMsgFallback(e) ==
    LET safeMsg == IF e.SafeMsg = <<>> THEN e.Msg ELSE e.SafeMsg IN
    <<"{", "\"", "c", "o", "d", "e", "\"", ":">> \o Quote(String(e.Code))
    \o <<",", "\"", "m", "e", "s", "s", "a", "g", "e", "\"", ":">> \o Quote(safeMsg)
    \o (IF DOMAIN e.Details = {} THEN <<>>
        ELSE <<",", "\"", "d", "e", "t", "a", "i", "l", "s", "\"", ":">>
                 \o MarshalMap(e.Details))
    \o <<"}">>

\* (e *Error).MarshalJSON(): the bytes returned.
MarshalJSON(e) ==
    LET safeMsg == IF e.SafeMsg = <<>> THEN String(e.Code) ELSE e.SafeMsg IN
    <<"{", "\"", "c", "o", "d", "e", "\"", ":">> \o Quote(String(e.Code))
    \o <<",", "\"", "m", "e", "s", "s", "a", "g", "e", "\"", ":">> \o Quote(safeMsg)
    \o (IF DOMAIN e.Details = {} THEN <<>>
        ELSE <<",", "\"", "d", "e", "t", "a", "i", "l", "s", "\"", ":">>
                 \o MarshalMap(e.Details))
    \o <<"}">>

----------------------------------------------------------------------------
(* net/http response writer *)

\* The writer handed to ServeHTTP, before anything is written.
NewWriter == [wroteHeader |-> FALSE, status |-> 0, ctSet |-> FALSE,
              ctSent |-> FALSE, body |-> <<>>]

\* w.Header().Set("Content-Type", "application/json")
SetContentTypeJSON(x) == [x EXCEPT !.ctSet = TRUE]

\* w.WriteHeader(code) on the underlying writer: the first call wins.
WriteHeader(x, code) ==
    IF x.wroteHeader THEN x
    ELSE [x EXCEPT !.wroteHeader = TRUE, !.status = code, !.ctSent = x.ctSet]

\* w.Write(b) on the underlying writer: writes the header 200 when none was.
Write(x, b) == LET y == WriteHeader(x, 200) IN [y EXCEPT !.body = @ \o b]

\* json.NewEncoder(w).Encode(v), text being json.Marshal(v).
Encode(x, text) == Write(x, text \o <<"\n">>)

\* The status the client receives once ServeHTTP has returned.
ClientStatus(x) == IF x.wroteHeader THEN x.status ELSE 200

\* json.Marshal of map[string]string{"code": "INTERNAL",
\* "message": "Internal Server Error"}
GenericBody ==
    <<"{">> \o Quote(<<"c", "o", "d", "e">>) \o <<":">> \o Quote(<<"I", "N", "T", "E", "R",
            "N", "A", "L">>)
    \o <<",">> \o Quote(<<"m", "e", "s", "s", "a", "g", "e">>) \o <<":">>
    \o Quote(<<"I", "n", "t", "e", "r", "n", "a", "l", " ", "S", "e", "r", "v", "e", "r", " ",
            "E", "r", "r", "o", "r">>)
    \o <<"}">>

\* Variant of defaultErrorEncoder: a SemanticError is written with its
\* internal message.
defaultErrorEncoderInternal(x, err) ==
    LET status == ToHTTPStatus(err)
        x1 == WriteHeader(SetContentTypeJSON(x), status)
        obsErr == AsError(err)
    IN  IF obsErr.kind = "sem"
        THEN Encode(x1, MarshalJSON([obsErr EXCEPT !.SafeMsg = obsErr.Msg]))
        ELSE Encode(x1, GenericBody)

\* Variant of defaultErrorEncoder: an unclassified error is written with its
\* own text as the message.
defaultErrorEncoderVerbose(x, err) ==
    LET status == ToHTTPStatus(err)
        x1 == WriteHeader(SetContentTypeJSON(x), status)
        obsErr == AsError(err)
    IN  IF obsErr.kind = "sem" THEN Encode(x1, MarshalJSON(obsErr))
        ELSE Encode(x1,
                <<"{">> \o Quote(<<"c", "o", "d", "e">>) \o <<":">>
                \o Quote(<<"I", "N", "T", "E", "R", "N", "A", "L">>)
                \o <<",">> \o Quote(<<"m", "e", "s", "s", "a", "g", "e">>) \o <<":">>
                \o Quote(IF err.kind = "plain" THEN err.text ELSE <<>>)
                \o <<"}">>)

\* Variant of defaultErrorEncoder: the status line is left to the first
\* body write.
defaultErrorEncoderImplicit(x, err) ==
    LET x1 == SetContentTypeJSON(x)
        obsErr == AsError(err)
    IN  IF obsErr.kind = "sem" THEN Encode(x1, MarshalJSON(obsErr))
        ELSE Encode(x1, GenericBody)

defaultErrorEncoder(x, err) ==
    LET status == ToHTTPStatus(err)
        x1 == WriteHeader(SetContentTypeJSON(x), status)
        obsErr == AsError(err)
    IN  IF obsErr.kind = "sem" THEN Encode(x1, MarshalJSON(obsErr))
        ELSE Encode(x1, GenericBody)

\* strconv.Itoa for n >= 0
RECURSIVE Itoa(_)
Itoa(n) ==
    LET digit(d) == <<"0", "1", "2", "3", "4", "5", "6", "7", "8", "9">>[d + 1] IN
    IF n < 10 THEN <<digit(n)>> ELSE Itoa(n \div 10) \o <<digit(n % 10)>>

----------------------------------------------------------------------------
(* gRPC status *)

\* google.golang.org/grpc/codes
GRPCOK == 0
GRPCUnknown == 2
GRPCInvalidArgument == 3
GRPCDeadlineExceeded == 4
GRPCNotFound == 5
GRPCPermissionDenied == 7
GRPCInternal == 13
GRPCUnavailable == 14
GRPCDataLoss == 15
GRPCUnauthenticated == 16

\* codes.Code.String() for the codes used here
GRPCCodeString(c) ==
    CASE c = GRPCOK -> <<"O", "K">>
      [] c = GRPCUnknown -> <<"U", "n", "k", "n", "o", "w", "n">>
      [] c = GRPCInvalidArgument -> <<"I", "n", "v", "a", "l", "i", "d", "A", "r", "g", "u",
              "m", "e", "n", "t">>
      [] c = GRPCDeadlineExceeded -> <<"D", "e", "a", "d", "l", "i", "n", "e", "E", "x", "c",
              "e", "e", "d", "e", "d">>
      [] c = GRPCNotFound -> <<"N", "o", "t", "F", "o", "u", "n", "d">>
      [] c = GRPCPermissionDenied -> <<"P", "e", "r", "m", "i", "s", "s", "i", "o", "n", "D",
              "e", "n", "i", "e", "d">>
      [] c = GRPCInternal -> <<"I", "n", "t", "e", "r", "n", "a", "l">>
      [] c = GRPCUnavailable -> <<"U", "n", "a", "v", "a", "i", "l", "a", "b", "l", "e">>
      [] c = GRPCDataLoss -> <<"D", "a", "t", "a", "L", "o", "s", "s">>
      [] c = GRPCUnauthenticated -> <<"U", "n", "a", "u", "t", "h", "e", "n", "t", "i", "c",
              "a", "t", "e", "d">>
      [] OTHER -> <<"C", "o", "d", "e", "(">> \o Itoa(c) \o <<")">>

\* status.New(code, msg)
StatusNew(code, msg) == [code |-> code, msg |-> msg]

\* status.Error(code, msg) with code # OK: an error carrying an RPC status.
StatusErr(code, msg) == [kind |-> "status", code |-> code, msg |-> msg]

\* (*status.Status).Err(): nil for OK.
StatusToErr(st) == IF st.code = GRPCOK THEN NilErr ELSE StatusErr(st.code, st.msg)

\* Variant of ToGRPCStatus: the status message falls back to the internal
\* message.
ToGRPCStatusMsgFallback(err) ==
    IF err.kind = "nil" THEN StatusNew(GRPCOK, <<"O", "K">>)
    ELSE LET e == AsError(err) IN
        IF e.kind = "sem" THEN
            LET code == CASE e.Code = CodeOK -> GRPCOK
                          [] e.Code = CodeInvalid -> GRPCInvalidArgument
                          [] e.Code = CodeUnauthorized -> GRPCUnauthenticated
                          [] e.Code = CodePermissionDenied -> GRPCPermissionDenied
                          [] e.Code = CodeNotFound -> GRPCNotFound
                          [] e.Code = CodeInternal -> GRPCInternal
                          [] e.Code = CodeUnavailable -> GRPCUnavailable
                          [] e.Code = CodeDeadlineExceeded -> GRPCDeadlineExceeded
                          [] OTHER -> GRPCUnknown
                msg == IF e.SafeMsg = <<>> THEN e.Msg ELSE e.SafeMsg
            IN StatusNew(code, msg)
        ELSE StatusNew(GRPCUnknown,
                       <<"i", "n", "t", "e", "r", "n", "a", "l", " ", "s", "e", "r", "v", "e",
                               "r", " ", "e", "r", "r", "o", "r">>)

ToGRPCStatus(err) ==
    IF err.kind = "nil" THEN StatusNew(GRPCOK, <<"O", "K">>)
    ELSE LET e == AsError(err) IN
        IF e.kind = "sem" THEN
            LET code == CASE e.Code = CodeOK -> GRPCOK
                          [] e.Code = CodeInvalid -> GRPCInvalidArgument
                          [] e.Code = CodeUnauthorized -> GRPCUnauthenticated
                          [] e.Code = CodePermissionDenied -> GRPCPermissionDenied
                          [] e.Code = CodeNotFound -> GRPCNotFound
                          [] e.Code = CodeInternal -> GRPCInternal
                          [] e.Code = CodeUnavailable -> GRPCUnavailable
                          [] e.Code = CodeDeadlineExceeded -> GRPCDeadlineExceeded
                          [] OTHER -> GRPCUnknown
                msg == IF e.SafeMsg = <<>> THEN String(e.Code) ELSE e.SafeMsg
            IN StatusNew(code, msg)
        ELSE StatusNew(GRPCUnknown,
                       <<"i", "n", "t", "e", "r", "n", "a", "l", " ", "s", "e", "r", "v", "e",
                               "r", " ", "e", "r", "r", "o", "r">>)

\* Variant of FromGRPCStatus: DeadlineExceeded is missing from the table.
FromGRPCStatusNoDeadline(code) ==
    CASE code = GRPCOK -> CodeOK
      [] code = GRPCInvalidArgument -> CodeInvalid
      [] code = GRPCUnauthenticated -> CodeUnauthorized
      [] code = GRPCPermissionDenied -> CodePermissionDenied
      [] code = GRPCNotFound -> CodeNotFound
      [] code = GRPCUnavailable -> CodeUnavailable
      [] code = GRPCInternal -> CodeInternal
      [] OTHER -> CodeUnknown

FromGRPCStatus(code) ==
    CASE code = GRPCOK -> CodeOK
      [] code = GRPCInvalidArgument -> CodeInvalid
      [] code = GRPCUnauthenticated -> CodeUnauthorized
      [] code = GRPCPermissionDenied -> CodePermissionDenied
      [] code = GRPCNotFound -> CodeNotFound
      [] code = GRPCUnavailable -> CodeUnavailable
      [] code = GRPCDeadlineExceeded -> CodeDeadlineExceeded
      [] code = GRPCInternal -> CodeInternal
      [] OTHER -> CodeUnknown

\* The RPC codes FromGRPCStatus maps to a code other than Unknown.
MappedGRPCCodes ==
    {GRPCOK, GRPCInvalidArgument, GRPCUnauthenticated, GRPCPermissionDenied,
     GRPCNotFound, GRPCUnavailable, GRPCDeadlineExceeded, GRPCInternal}

\* The code tag computed by the gRPC interceptor from the handler's error:
\* status.FromError succeeds only for an error that carries an RPC status.
codeStr(err) ==
    IF err.kind = "nil" THEN <<"O", "K">>
    ELSE IF err.kind = "status" THEN GRPCCodeString(err.code)
    ELSE <<"U", "N", "K", "N", "O", "W", "N">>

----------------------------------------------------------------------------
(* Response bodies: bytes, with runs of filler bytes held as blocks *)

\* FillChar[k + 1] stands for 2^k consecutive bytes "x" of a body.
FillChar ==
    <<"x", "x^2", "x^4", "x^8", "x^16", "x^32", "x^64", "x^128", "x^256", "x^512",
      "x^1024", "x^2048", "x^4096", "x^8192", "x^16384", "x^32768", "x^65536">>

RECURSIVE Pow2(_)
Pow2(k) == IF k = 0 THEN 1 ELSE 2 * Pow2(k - 1)

\* The number of bytes one element of a body stands for.
Weight(ch) ==
    IF \E k \in DOMAIN FillChar : FillChar[k] = ch
    THEN Pow2((CHOOSE k \in DOMAIN FillChar : FillChar[k] = ch) - 1)
    ELSE 1

\* len(b) in bytes
RECURSIVE ByteLen(_)
ByteLen(b) == IF b = <<>> THEN 0 ELSE Weight(Head(b)) + ByteLen(Tail(b))

\* n filler bytes, largest blocks first.
RECURSIVE Fill(_)
Fill(n) ==
    IF n = 0 THEN <<>>
    ELSE LET k == CHOOSE j \in DOMAIN FillChar :
                    /\ Pow2(j - 1) <= n
                    /\ \A i \in DOMAIN FillChar : Pow2(i - 1) <= n => i <= j
         IN <<FillChar[k]>> \o Fill(n - Pow2(k - 1))

\* The first n bytes of b.
RECURSIVE Take(_, _)
Take(b, n) ==
    IF n = 0 \/ b = <<>> THEN <<>>
    ELSE IF Weight(Head(b)) <= n
        THEN <<Head(b)>> \o Take(Tail(b), n - Weight(Head(b)))
        ELSE Fill(n)

\* What is left of b after its first n bytes.
RECURSIVE Drop(_, _)
Drop(b, n) ==
    IF n = 0 \/ b = <<>> THEN b
    ELSE IF Weight(Head(b)) <= n THEN Drop(Tail(b), n - Weight(Head(b)))
        ELSE Fill(Weight(Head(b)) - n) \o Tail(b)

----------------------------------------------------------------------------
(* encoding/json: decoding a body into an owl.Error *)

\* JSON white space
WS == {" ", "\n", "\t", "\r"}

\* The first position from i on that holds no white space.
RECURSIVE SkipWS(_, _)
SkipWS(b, i) == IF i <= Len(b) /\ b[i] \in WS THEN SkipWS(b, i + 1) ELSE i

\* The position of the quote closing the string literal whose first
\* character is at i; 0 when the literal is not closed.
RECURSIVE StrEnd(_, _)
StrEnd(b, i) ==
    IF i > Len(b) \/ b[i] = "\n" THEN 0
    ELSE IF b[i] = "\"" THEN i
    ELSE IF b[i] = "\\" THEN StrEnd(b, i + 2)
    ELSE StrEnd(b, i + 1)

Digits == {"0", "1", "2", "3", "4", "5", "6", "7", "8", "9"}

\* The first position from i on that holds no digit.
RECURSIVE NumEnd(_, _)
NumEnd(b, i) == IF i <= Len(b) /\ b[i] \in Digits THEN NumEnd(b, i + 1) ELSE i

\* A value that failed to parse.
NoValue == [ok |-> FALSE, kind |-> "invalid", val |-> <<>>, next |-> 0]

HasAt(b, i, lit) == i + Len(lit) - 1 <= Len(b) /\ SubSeq(b, i, i + Len(lit) - 1) = lit

\* The JSON value starting at position i of b (no white space at i):
\* strings, non-negative integers, null, true, false and objects; val is
\* the string for a string, the members in order for an object, next the
\* position after the value.
RECURSIVE ParseValue(_, _), ParseMembers(_, _, _)
ParseValue(b, i) ==
    IF i > Len(b) THEN NoValue
    ELSE IF b[i] = "\"" THEN
        LET e == StrEnd(b, i + 1)
            u == Unescape(SubSeq(b, i + 1, e - 1))
        IN  IF e = 0 \/ u = Bad THEN NoValue
            ELSE [ok |-> TRUE, kind |-> "string", val |-> u, next |-> e + 1]
    ELSE IF b[i] \in Digits THEN
        LET e == NumEnd(b, i) IN
        IF b[i] = "0" /\ e > i + 1 THEN NoValue
        ELSE [ok |-> TRUE, kind |-> "number", val |-> <<>>, next |-> e]
    ELSE IF HasAt(b, i, <<"n", "u", "l", "l">>) THEN
        [ok |-> TRUE, kind |-> "null", val |-> <<>>, next |-> i + 4]
    ELSE IF HasAt(b, i, <<"t", "r", "u", "e">>) THEN
        [ok |-> TRUE, kind |-> "bool", val |-> <<>>, next |-> i + 4]
    ELSE IF HasAt(b, i, <<"f", "a", "l", "s", "e">>) THEN
        [ok |-> TRUE, kind |-> "bool", val |-> <<>>, next |-> i + 5]
    ELSE IF b[i] = "{" THEN
        LET j == SkipWS(b, i + 1) IN
        IF j <= Len(b) /\ b[j] = "}"
        THEN [ok |-> TRUE, kind |-> "object", val |-> <<>>, next |-> j + 1]
        ELSE ParseMembers(b, j, <<>>)
    ELSE NoValue

\* The members of an object from the key at position j on, acc holding the
\* members already read.
ParseMembers(b, j, acc) ==
    LET key == IF j <= Len(b) /\ b[j] = "\"" THEN ParseValue(b, j) ELSE NoValue IN
    IF ~key.ok THEN NoValue
    ELSE LET c == SkipWS(b, key.next) IN
        IF c > Len(b) \/ b[c] # ":" THEN NoValue
        ELSE LET pv == ParseValue(b, SkipWS(b, c + 1)) IN
            IF ~pv.ok THEN NoValue
            ELSE LET m == SkipWS(b, pv.next)
                     all == Append(acc, [key |-> key.val, kind |-> pv.kind, val |-> pv.val])
                 IN IF m > Len(b) THEN NoValue
                    ELSE IF b[m] = "}"
                        THEN [ok |-> TRUE, kind |-> "object", val |-> all, next |-> m + 1]
                    ELSE IF b[m] = ","
                        THEN ParseMembers(b, SkipWS(b, m + 1), all)
                    ELSE NoValue

\* The whole of b as one JSON value between optional white space.
ParseJSON(b) ==
    LET pv == ParseValue(b, SkipWS(b, 1)) IN
    IF pv.ok /\ SkipWS(b, pv.next) > Len(b) THEN pv ELSE NoValue

\* The bytes of a string value as json.Marshal would write them: what
\* Code.UnmarshalJSON is handed for a string member.
RawOf(m) ==
    CASE m.kind = "string" -> Quote(m.val)
      [] m.kind = "null" -> <<"n", "u", "l", "l">>
      [] m.kind = "object" -> <<"{", "}">>
      [] OTHER -> <<"1">>

\* A details value that is not a string.
NonString == <<"!other">>

\* Decoding the members of a "details" object into the map held so far.
RECURSIVE DecodeDetails(_, _, _)
DecodeDetails(d, ms, i) ==
    IF i > Len(ms) THEN d
    ELSE DecodeDetails(
            [k \in DOMAIN d \cup {ms[i].key} |->
                IF k = ms[i].key
                THEN (IF ms[i].kind = "string" THEN ms[i].val ELSE NonString)
                ELSE d[k]],
            ms, i + 1)

\* Decoding one member into the Error: fail tells that the decoder stops
\* with an error, typeErr that it saved a type error and went on.
DecodeMember(e, m) ==
    LET stringField(name) ==
            CASE m.kind = "string" ->
                    [e |-> [e EXCEPT ![name] = m.val], fail |-> FALSE, typeErr |-> FALSE]
              [] m.kind = "null" -> [e |-> e, fail |-> FALSE, typeErr |-> FALSE]
              [] OTHER -> [e |-> e, fail |-> FALSE, typeErr |-> TRUE]
    IN  CASE m.key = <<"c", "o", "d", "e">> ->
                LET r == UnmarshalJSON(e.Code, RawOf(m)) IN
                [e |-> [e EXCEPT !.Code = r.c], fail |-> ~r.ok, typeErr |-> FALSE]
          [] m.key = <<"m", "e", "s", "s", "a", "g", "e">> -> stringField("Msg")
          [] m.key = <<"s", "a", "f", "e", "_", "m", "e", "s", "s", "a", "g", "e">> ->
                stringField("SafeMsg")
          [] m.key = <<"o", "p">> -> stringField("Op")
          [] m.key = <<"d", "e", "t", "a", "i", "l", "s">> ->
                CASE m.kind = "object" ->
                        [e |-> [e EXCEPT !.Details = DecodeDetails(e.Details, m.val, 1)],
                         fail |-> FALSE, typeErr |-> FALSE]
                  [] m.kind = "null" -> [e |-> e, fail |-> FALSE, typeErr |-> FALSE]
                  [] OTHER -> [e |-> e, fail |-> FALSE, typeErr |-> TRUE]
          [] OTHER -> [e |-> e, fail |-> FALSE, typeErr |-> FALSE]

RECURSIVE DecodeMembers(_, _, _, _)
DecodeMembers(e, ms, i, typeErr) ==
    IF i > Len(ms) THEN [ok |-> ~typeErr, e |-> e]
    ELSE LET r == DecodeMember(e, ms[i]) IN
        IF r.fail THEN [ok |-> FALSE, e |-> r.e]
        ELSE DecodeMembers(r.e, ms, i + 1, typeErr \/ r.typeErr)

\* json.Unmarshal(body, &owlErr) with owlErr a zero owl.Error: ok tells
\* whether it returned nil, e is owlErr after the call.
UnmarshalError(body) ==
    LET pv == ParseJSON(body)
        zero == Problem(CodeUnknown)
    IN  IF ~pv.ok THEN [ok |-> FALSE, e |-> zero]
        ELSE IF pv.kind = "null" THEN [ok |-> TRUE, e |-> zero]
        ELSE IF pv.kind # "object" THEN [ok |-> FALSE, e |-> zero]
        ELSE DecodeMembers(zero, pv.val, 1, FALSE)

----------------------------------------------------------------------------
(* HTTP client: responses and CheckResponse *)

\* io.LimitReader(resp.Body, 64*1024)
ReadLimit == 64 * 1024

ApplicationJSON == <<"a", "p", "p", "l", "i", "c", "a", "t", "i", "o", "n", "/", "j", "s",
        "o", "n">>

\* An *http.Response: body holds the bytes not yet read from resp.Body,
\* closer tells what Close does to later reads ("nop": io.NopCloser,
\* reads go on; "net": the body of a transport, reads fail after Close).
Response(status, ct, body, closer) ==
    [status |-> status, ct |-> ct, body |-> body, closed |-> FALSE, closer |-> closer]

\* No response.
NoResp == [status |-> 0, ct |-> <<>>, body |-> <<>>, closed |-> FALSE, closer |-> "none"]

\* A result not produced yet.
NoResult == [kind |-> "none"]

\* Variant of CheckResponse: the error decoded from the body is returned
\* only when the status agrees with its code.
CheckResponseStrict(r) ==
    IF r.status < 400 THEN [err |-> NilErr, resp |-> r]
    ELSE LET isJSON == HasAt(r.ct, 1, ApplicationJSON)
             body == Take(r.body, ReadLimit)
             after == [r EXCEPT !.body = Drop(r.body, ReadLimit), !.closed = TRUE]
             d == UnmarshalError(body)
         IN IF (isJSON \/ (Len(body) > 0 /\ body[1] = "{")) /\ d.ok
                /\ d.e.Code # CodeUnknown /\ ToHTTPStatus(d.e) = r.status
            THEN [err |-> d.e, resp |-> after]
            ELSE [err |-> WithMsg(Problem(FromHTTPStatus(r.status)), body), resp |-> after]

\* Variant of CheckResponse: the body is never decoded.
CheckResponseFallbackOnly(r) ==
    IF r.status < 400 THEN [err |-> NilErr, resp |-> r]
    ELSE LET body == Take(r.body, ReadLimit)
             after == [r EXCEPT !.body = Drop(r.body, ReadLimit), !.closed = TRUE]
         IN [err |-> WithMsg(Problem(FromHTTPStatus(r.status)), body), resp |-> after]

\* CheckResponse(resp): the error returned and resp after the call.
CheckResponse(r) ==
    IF r.status < 400 THEN [err |-> NilErr, resp |-> r]
    ELSE LET isJSON == HasAt(r.ct, 1, ApplicationJSON)
             body == Take(r.body, ReadLimit)
             after == [r EXCEPT !.body = Drop(r.body, ReadLimit), !.closed = TRUE]
             d == UnmarshalError(body)
         IN IF (isJSON \/ (Len(body) > 0 /\ body[1] = "{")) /\ d.ok
                /\ d.e.Code # CodeUnknown
            THEN [err |-> d.e, resp |-> after]
            ELSE [err |-> WithMsg(Problem(FromHTTPStatus(r.status)), body), resp |-> after]

\* io.ReadAll(resp.Body) by the caller: ok tells whether err is nil.
ReadAll(r) ==
    IF r.closed /\ r.closer = "net" THEN [kind |-> "read", ok |-> FALSE, data |-> <<>>]
    ELSE [kind |-> "read", ok |-> TRUE, data |-> r.body]

----------------------------------------------------------------------------
(* Values the translators are applied to *)

\* Codes carried by the errors that are enumerated with all their fields:
\* the nine defined codes and one undefined numeric code.
SampleCodes == DefinedCodes \cup {418}

\* Causes attached to an *Error: none, a plain error, another *Error.
Causes == {NilErr, PlainErr(<<"K">>), Problem(CodeNotFound)}

SemErrors(codes, n, ops, details) ==
    {SemErr(c, m, sm, op, cause, d) :
        c \in codes, m \in Str(n), sm \in Str(n), op \in ops,
        cause \in Causes, d \in details}

\* Inputs of ToHTTPStatus and MarshalJSON.
ConvErrors ==
    {NilErr}
    \cup {PlainErr(t) : t \in Str(MaxStrLen)}
    \cup {Problem(c) : c \in Codes}
    \cup {e \in SemErrors(SampleCodes, MaxMsgLen, {<<>>},
                           {NoDetails, [k \in {<<"a">>} |-> <<"K">>]}) :
            e.Err = NilErr \/ e.Code \in {CodeUnauthorized, CodeInternal, 418}}
    \cup {e \in SemErrors({CodeOK, CodeNotFound, 418}, MaxStrLen, {<<>>}, {NoDetails}) :
            e.Err = NilErr \/ e.Code = CodeNotFound}
    \cup {SemErr(CodeInvalid, <<"K">>, <<>>, op, NilErr, d) :
            op \in {<<>>, <<"O">>}, d \in DetailMaps({<<"K">>, <<"\"">>})}
    \cup {WrapErr(e) : e \in {PlainErr(<<"K">>)} \cup {Problem(c) : c \in SampleCodes}}
    \cup {Join(PlainErr(<<"K">>), Problem(CodeNotFound)),
          Join(PlainErr(<<"K">>), PlainErr(<<"O">>)), CodeErr(CodeNotFound)}

\* Causes handed to WithErr: nil, two plain errors, a Code value, another
\* *Error and an error of a non-comparable type.
OptCauses ==
    {NilErr, PlainErr(<<"K">>), PlainErr(<<"O">>), CodeErr(CodeNotFound),
     Problem(CodeInternal), SliceErr(<<"K">>)}

\* Option values handed to Problem.
Options ==
    {[opt |-> "WithMsg", val |-> m] : m \in {<<>>, <<"K">>, <<"O">>}}
    \cup {[opt |-> "WithSafeMsg", val |-> m] : m \in {<<>>, <<"K">>, <<"O">>}}
    \cup {[opt |-> "WithOp", val |-> m] : m \in {<<>>, <<"O">>}}
    \cup {[opt |-> "WithErr", val |-> x] : x \in OptCauses}
    \cup {[opt |-> "WithDetails", val |-> d] :
            d \in DetailMaps({<<"K">>}) \cup {[k \in {<<"a">>} |-> <<"O">>]}}

\* Argument lists opts... of at most n options drawn from os.
OptionLists(os, n) == UNION {[1..k -> os] : k \in 0..n}

\* Inputs of errors.Is and Error.Is: an *Error built with WithErr options
\* (causes: the non-nil errors attached) or carrying messages, operation
\* and details, and a target.
IsTargets ==
    {CodeErr(c) : c \in {CodeNotFound, CodeInternal, 418}}
    \cup {CodePtr(CodeNotFound), NilErr, WrapErr(PlainErr(<<"K">>))}
    \cup (OptCauses \ {NilErr})

IsArgs ==
    {[err |-> ProblemWith(c, os), causes |-> {os[i].val : i \in DOMAIN os} \ {NilErr},
      target |-> x] :
        c \in {CodeNotFound, CodeInternal},
        os \in OptionLists({o \in Options : o.opt = "WithErr"}, MaxOpts),
        x \in IsTargets}
    \cup {[err |-> SemErr(CodeNotFound, <<"K">>, <<"O">>, <<"O">>, NilErr,
                          [k \in {<<"a">>} |-> <<"K">>]),
           causes |-> {}, target |-> x] : x \in IsTargets}

\* Inputs of Code.UnmarshalJSON: JSON strings and a few other JSON texts.
JSONTexts ==
    {Quote(s) : s \in Str(MaxStrLen)}
    \cup {Quote(String(c)) : c \in DefinedCodes}
    \cup {<<"n", "u", "l", "l">>, <<"1">>, <<"{", "}">>, <<"\"">>, <<"\"", "\\", "\"">>}

ConvArgs ==
    {[t |-> "status", v |-> n] : n \in 0..MaxStatus}
    \cup {[t |-> "code", v |-> c] : c \in Codes}
    \cup {[t |-> "err", v |-> e] : e \in ConvErrors}
    \cup {[t |-> "json", v |-> b] : b \in JSONTexts}
    \cup {[t |-> "grpc", v |-> c] : c \in 0..MaxGRPCCode}
    \cup {[t |-> "opts", v |-> [code |-> c, opts |-> os]] :
            c \in {CodeNotFound, 418}, os \in OptionLists(Options, MaxOpts)}
    \cup {[t |-> "is", v |-> a] : a \in IsArgs}

\* The time the wrapped handler of a call runs for, in clock ticks.
HandlerTicks == 1

\* The globals as the package's init leaves them: the no-op logger, no
\* panic handler.
NoGlobals == [logger |-> "returns", panicHandler |-> "nil"]

\* No call in progress.
IdleCall ==
    /\ transport = "none"
    /\ pc = "idle"
    /\ handler = [outcome |-> "none"]
    /\ w = NewWriter
    /\ rwStatus = 0
    /\ logs = <<>>
    /\ metrics = <<>>
    /\ ret = [kind |-> "none"]
    /\ upstream = NoResult
    /\ resp = NoResp
    /\ clogs = <<>>
    /\ out = [rt |-> NoResult, chk |-> NoResult, read |-> NoResult]
    /\ now = 0
    /\ start = 0
    /\ duration = 0
    /\ ctxDone = FALSE
    /\ globals = NoGlobals
    /\ goroutine = "none"
    /\ checks = <<>>
    /\ handled = <<>>

InitConv ==
    /\ arg \in ConvArgs
    /\ res = arg
    /\ fn = <<>>
    /\ IdleCall

Apply(name, t, v) ==
    /\ Len(fn) < MaxCalls
    /\ fn' = Append(fn, name)
    /\ res' = [t |-> t, v |-> v]
    /\ UNCHANGED <<arg, transport, pc, handler, w, rwStatus, logs, metrics, ret>>
    /\ UNCHANGED clientVars
    /\ UNCHANGED <<goVars, clockVars>>

CallProblem == res.t = "code" /\ Apply("Problem", "err", Problem(res.v))

CallToHTTPStatus == res.t = "err" /\ Apply("ToHTTPStatus", "status", ToHTTPStatus(res.v))

CallFromHTTPStatus ==
    res.t = "status" /\ Apply("FromHTTPStatus", "code", FromHTTPStatus(res.v))

CallString == res.t = "code" /\ Apply("String", "str", String(res.v))

CallQuote == res.t = "str" /\ Apply("Quote", "json", Quote(res.v))

\* The Code decoded into holds Internal before the call.
CallUnmarshalJSON ==
    /\ res.t = "json"
    /\ LET r == UnmarshalJSON(CodeInternal, res.v) IN
        Apply("UnmarshalJSON", IF r.ok THEN "code" ELSE "failed", r.c)

CallMarshalJSON ==
    res.t = "err" /\ res.v.kind = "sem" /\ Apply("MarshalJSON", "json", MarshalJSON(res.v))

\* ToGRPCStatus(err): the result is the *status.Status.
CallToGRPCStatus == res.t = "err" /\ Apply("ToGRPCStatus", "gst", ToGRPCStatus(res.v))

\* FromGRPCStatus(st.Code()) for a status, FromGRPCStatus(c) for a bare code.
CallFromGRPCStatus ==
    \/ res.t = "gst" /\ Apply("FromGRPCStatus", "code", FromGRPCStatus(res.v.code))
    \/ res.t = "grpc" /\ Apply("FromGRPCStatus", "code", FromGRPCStatus(res.v))

\* Problem(code, opts...)
CallProblemOpts ==
    res.t = "opts" /\ Apply("ProblemOpts", "built", ProblemWith(res.v.code, res.v.opts))

\* errors.Is(err, target)
CallErrorsIs ==
    res.t = "is" /\ Apply("errors.Is", "bool", ErrorsIs(res.v.err, res.v.target))

\* err.Is(target), called directly on the *Error
CallIs == res.t = "is" /\ Apply("Is", "bool", Is(res.v.err, res.v.target))

NextConv ==
    \/ CallProblem
    \/ CallToHTTPStatus
    \/ CallFromHTTPStatus
    \/ CallString
    \/ CallQuote
    \/ CallUnmarshalJSON
    \/ CallMarshalJSON
    \/ CallToGRPCStatus
    \/ CallFromGRPCStatus
    \/ CallProblemOpts
    \/ CallErrorsIs
    \/ CallIs

SpecConv == InitConv /\ [][NextConv]_vars

----------------------------------------------------------------------------
(* Server interceptors: one call *)

\* The request of the call: r.Method, r.URL.Path, info.FullMethod.
ReqMethod == <<"G", "E", "T">>
ReqPath == <<"/", "x">>
FullMethod == <<"/", "s", "/", "M">>

\* Errors a handler may return; the two messages of a semantic error are
\* together at most MaxMsgLen + 1 long.
HandlerErrors ==
    {e \in SemErrors(SampleCodes, MaxMsgLen, {<<>>}, {NoDetails}) :
        /\ e.Err = NilErr \/ e.Code \in {CodeUnauthorized, CodeInternal}
        /\ Len(e.Msg) + Len(e.SafeMsg) <= MaxMsgLen + 1}
    \cup {SemErr(c, <<"K">>, sm, <<"O">>, NilErr, [k \in {<<"a">>} |-> <<"K">>]) :
            c \in {CodeNotFound, CodeInternal}, sm \in {<<>>, <<"O">>}}
    \cup {PlainErr(t) : t \in Str(MaxMsgLen)}
    \cup {WrapErr(Problem(CodeNotFound)), WrapErr(Problem(CodeUnknown)),
          WrapErr(PlainErr(<<"K">>))}
    \cup {StatusErr(c, <<"K">>) : c \in {GRPCNotFound, GRPCDataLoss}}

\* Values a handler may panic with (non-nil).
PanicVals == Str(MaxMsgLen)

\* What a handler may have written to its ResponseWriter before it returns
\* or panics: hdr is the status passed to WriteHeader (0: no call), body the
\* bytes passed to Write.
PreWrites == {[hdr |-> h, body |-> b] : h \in {0, 201}, b \in {<<>>, <<"K">>}}

Outcomes ==
    {[outcome |-> "ok", err |-> NilErr, panicVal |-> <<>>]}
    \cup {[outcome |-> "err", err |-> e, panicVal |-> <<>>] : e \in HandlerErrors}
    \cup {[outcome |-> "panic", err |-> NilErr, panicVal |-> v] : v \in PanicVals}

HTTPHandlers ==
    {[pre |-> p, outcome |-> o.outcome, err |-> o.err, panicVal |-> o.panicVal] :
        p \in PreWrites, o \in Outcomes}

GRPCHandlers ==
    {[resp |-> "resp", outcome |-> o.outcome, err |-> o.err, panicVal |-> o.panicVal] :
        o \in Outcomes}

\* No translator call in progress.
IdleConv ==
    /\ fn = <<>>
    /\ arg = [t |-> "none"]
    /\ res = [t |-> "none"]

\* What SetLogger and SetPanicHandler may have installed before Go is
\* called: a logger whose Error call returns or panics, and no panic
\* handler, one that returns, or one that panics itself.
GoGlobals ==
    {[logger |-> l, panicHandler |-> h] :
        l \in {"returns", "panics"}, h \in {"nil", "returns", "panics"}}

\* Values a task may panic with: strings and an integer.
TaskPanicVals ==
    {[kind |-> "string", s |-> x] : x \in PanicVals} \cup {[kind |-> "int", n |-> 7]}

\* What the task handed to Go does once it runs: it returns or panics.
Tasks ==
    {[outcome |-> "ok"]} \cup {[outcome |-> "panic", panicVal |-> x] : x \in TaskPanicVals}

Init ==
    /\ transport \in {"http", "grpc", "httpclient", "grpcclient", "go"}
    /\ pc = "start"
    /\ handler = [outcome |-> "none"]
    /\ w = NewWriter
    /\ rwStatus = 0
    /\ logs = <<>>
    /\ metrics = <<>>
    /\ ret = [kind |-> "none"]
    /\ upstream = NoResult
    /\ resp = NoResp
    /\ clogs = <<>>
    /\ out = [rt |-> NoResult, chk |-> NoResult, read |-> NoResult]
    /\ now = 0
    /\ start = 0
    /\ duration = 0
    /\ ctxDone \in (IF transport = "go" THEN BOOLEAN ELSE {FALSE})
    /\ globals \in (IF transport = "go" THEN GoGlobals ELSE {NoGlobals})
    /\ goroutine = "none"
    /\ checks = <<>>
    /\ handled = <<>>
    /\ IdleConv

\* (rw *responseWriter).WriteHeader(code), as called by the handler.
rwWriteHeader(x, code) == WriteHeader(x, code)

\* The underlying writer after the handler's own writes through rw.
AfterPreWrites(x, pre) ==
    LET x1 == IF pre.hdr # 0 THEN rwWriteHeader(x, pre.hdr) ELSE x
    IN  IF pre.body # <<>> THEN Write(x1, pre.body) ELSE x1

\* Wrap, lines 99-107: timer started, then trace context extracted, rw
\* created.
HTTPExtract ==
    /\ transport = "http"
    /\ pc = "start"
    /\ rwStatus' = 200
    /\ pc' = "exec"
    /\ UNCHANGED <<fn, arg, res, transport, handler, w, logs, metrics, ret>>
    /\ UNCHANGED clientVars
    /\ UNCHANGED goVars
    /\ start' = now
    /\ \E e \in {0, MaxExtractTicks} : now' = now + e
    /\ UNCHANGED duration

\* Wrap, line 129: err := h(rw, r); the handler returns or panics.
HTTPHandle ==
    /\ transport = "http"
    /\ pc = "exec"
    /\ \E h \in HTTPHandlers :
        /\ handler' = h
        /\ w' = AfterPreWrites(w, h.pre)
        /\ rwStatus' = IF h.pre.hdr # 0 THEN h.pre.hdr ELSE rwStatus
        /\ pc' = CASE h.outcome = "panic" -> "recover"
                   [] h.outcome = "err" -> "failed"
                   [] OTHER -> "success"
    /\ UNCHANGED <<fn, arg, res, transport, logs, metrics, ret>>
    /\ UNCHANGED clientVars
    /\ UNCHANGED goVars
    /\ now' = now + HandlerTicks
    /\ duration' = IF handler'.outcome = "panic" THEN duration ELSE now' - start
    /\ UNCHANGED start

\* Wrap, lines 133-159: status resolved, error-level log line.
HTTPLogFailure ==
    /\ transport = "http"
    /\ pc = "failed"
    /\ LET err == handler.err
           status == ToHTTPStatus(err)
           fields == [status |-> status, duration |-> duration, method |-> ReqMethod,
                      path |-> ReqPath]
       IN /\ rwStatus' = status
          /\ logs' = Append(logs,
                IF err.kind = "sem"
                THEN [level |-> "error", msg |-> err.Msg, err |-> err.Err,
                      fields |-> fields]
                ELSE [level |-> "error", msg |-> <<"r", "e", "q", "u", "e", "s", "t", "_",
                        "f", "a", "i", "l", "e", "d">>,
                      err |-> err, fields |-> fields])
    /\ pc' = "encode"
    /\ UNCHANGED <<fn, arg, res, transport, handler, w, metrics, ret>>
    /\ UNCHANGED clientVars
    /\ UNCHANGED <<goVars, clockVars>>

\* Wrap, line 162: f.errorEncoder(w, r, err) with the default encoder.
HTTPEncodeError ==
    /\ transport = "http"
    /\ pc = "encode"
    /\ w' = defaultErrorEncoder(w, handler.err)
    /\ pc' = "metrics"
    /\ UNCHANGED <<fn, arg, res, transport, handler, rwStatus, logs, metrics, ret>>
    /\ UNCHANGED clientVars
    /\ UNCHANGED <<goVars, clockVars>>

\* Wrap, lines 165-170: success log line.
HTTPLogSuccess ==
    /\ transport = "http"
    /\ pc = "success"
    /\ logs' = Append(logs,
            [level |-> "info", msg |-> <<"r", "e", "q", "u", "e", "s", "t", "_", "s", "u",
                    "c", "c", "e", "s", "s">>, err |-> NilErr,
             fields |-> [status |-> rwStatus, duration |-> duration,
                         method |-> ReqMethod, path |-> ReqPath]])
    /\ pc' = "metrics"
    /\ UNCHANGED <<fn, arg, res, transport, handler, w, rwStatus, metrics, ret>>
    /\ UNCHANGED clientVars
    /\ UNCHANGED <<goVars, clockVars>>

\* Variant of HTTPMetrics: the histogram is recorded for successful calls
\* only.
HTTPMetricsSuccessOnly ==
    /\ transport = "http"
    /\ pc = "metrics"
    /\ LET attrs == [method |-> ReqMethod, path |-> ReqPath, status |-> Itoa(rwStatus)]
       IN metrics' = metrics \o
            <<[op |-> "Inc", metric |-> "http_requests_total", attrs |-> attrs]>>
            \o (IF handler.outcome = "ok"
                THEN <<[op |-> "Record", metric |-> "http_request_duration_seconds",
                        value |-> duration, attrs |-> attrs]>>
                ELSE <<>>)
    /\ ret' = [kind |-> "returned"]
    /\ pc' = "done"
    /\ UNCHANGED <<fn, arg, res, transport, handler, w, rwStatus, logs>>
    /\ UNCHANGED clientVars
    /\ UNCHANGED <<goVars, clockVars>>

\* Wrap, lines 174-184: counter increment and histogram record; ServeHTTP
\* returns.
HTTPMetrics ==
    /\ transport = "http"
    /\ pc = "metrics"
    /\ LET attrs == [method |-> ReqMethod, path |-> ReqPath, status |-> Itoa(rwStatus)]
       IN metrics' = metrics \o
            <<[op |-> "Inc", metric |-> "http_requests_total", attrs |-> attrs],
              [op |-> "Record", metric |-> "http_request_duration_seconds",
               value |-> duration, attrs |-> attrs]>>
    /\ ret' = [kind |-> "returned"]
    /\ pc' = "done"
    /\ UNCHANGED <<fn, arg, res, transport, handler, w, rwStatus, logs>>
    /\ UNCHANGED clientVars
    /\ UNCHANGED <<goVars, clockVars>>

\* Wrap, lines 111-113: the deferred function recovers the panic and logs it.
HTTPRecoverLog ==
    /\ transport = "http"
    /\ pc = "recover"
    /\ logs' = Append(logs,
            [level |-> "error", msg |-> <<"p", "a", "n", "i", "c", " ", "r", "e", "c", "o",
                    "v", "e", "r", "e", "d">>, err |-> NilErr,
             fields |-> [panic |-> handler.panicVal]])
    /\ pc' = "recoverMetrics"
    /\ UNCHANGED <<fn, arg, res, transport, handler, w, rwStatus, metrics, ret>>
    /\ UNCHANGED clientVars
    /\ UNCHANGED goVars
    /\ duration' = now - start
    /\ UNCHANGED <<now, start>>

\* Wrap, lines 116-117: metrics of the panic path.
HTTPRecoverMetrics ==
    /\ transport = "http"
    /\ pc = "recoverMetrics"
    /\ LET attrs == [status |-> <<"5", "0", "0">>, panic |-> <<"t", "r", "u", "e">>]
       IN metrics' = metrics \o
            <<[op |-> "Inc", metric |-> "http_requests_total", attrs |-> attrs],
              [op |-> "Record", metric |-> "http_request_duration_seconds",
               value |-> duration, attrs |-> attrs]>>
    /\ pc' = "recoverRespond"
    /\ UNCHANGED <<fn, arg, res, transport, handler, w, rwStatus, logs, ret>>
    /\ UNCHANGED clientVars
    /\ UNCHANGED <<goVars, clockVars>>

\* Variant of HTTPRecoverRespond: the body is written without a header.
HTTPRecoverRespondNoHeader ==
    /\ transport = "http"
    /\ pc = "recoverRespond"
    /\ w' = Encode(w, GenericBody)
    /\ ret' = [kind |-> "returned"]
    /\ pc' = "done"
    /\ UNCHANGED <<fn, arg, res, transport, handler, rwStatus, logs, metrics>>
    /\ UNCHANGED clientVars
    /\ UNCHANGED <<goVars, clockVars>>

\* Wrap, lines 120-124: 500 and the generic body written to w; ServeHTTP
\* returns.
HTTPRecoverRespond ==
    /\ transport = "http"
    /\ pc = "recoverRespond"
    /\ w' = Encode(WriteHeader(w, 500), GenericBody)
    /\ ret' = [kind |-> "returned"]
    /\ pc' = "done"
    /\ UNCHANGED <<fn, arg, res, transport, handler, rwStatus, logs, metrics>>
    /\ UNCHANGED clientVars
    /\ UNCHANGED <<goVars, clockVars>>

\* UnaryServerInterceptor, lines 43-48: trace extraction, then timer started.
GRPCExtract ==
    /\ transport = "grpc"
    /\ pc = "start"
    /\ pc' = "exec"
    /\ UNCHANGED <<fn, arg, res, transport, handler, w, rwStatus, logs, metrics, ret>>
    /\ UNCHANGED clientVars
    /\ UNCHANGED goVars
    /\ \E e \in {0, MaxExtractTicks} : now' = now + e
    /\ start' = now'
    /\ UNCHANGED duration

\* UnaryServerInterceptor, line 51: resp, err := handler(ctx, req).  The
\* interceptor defers nothing, so a panic of the handler unwinds through it
\* to its caller.
GRPCHandle ==
    /\ transport = "grpc"
    /\ pc = "exec"
    /\ \E h \in GRPCHandlers :
        /\ handler' = h
        /\ IF h.outcome = "panic"
           THEN /\ pc' = "escaped"
                /\ ret' = [kind |-> "panic", val |-> h.panicVal]
           ELSE /\ pc' = "grpcMetrics"
                /\ ret' = ret
    /\ UNCHANGED <<fn, arg, res, transport, w, rwStatus, logs, metrics>>
    /\ UNCHANGED clientVars
    /\ UNCHANGED goVars
    /\ now' = now + HandlerTicks
    /\ duration' = IF handler'.outcome = "panic" THEN duration ELSE now' - start
    /\ UNCHANGED start

\* UnaryServerInterceptor, lines 55-72: code tag, counter and histogram.
GRPCMetrics ==
    /\ transport = "grpc"
    /\ pc = "grpcMetrics"
    /\ LET attrs == [method |-> FullMethod, code |-> codeStr(handler.err)]
       IN metrics' = metrics \o
            <<[op |-> "Inc", metric |-> "grpc_requests_total", attrs |-> attrs],
              [op |-> "Record", metric |-> "grpc_request_duration_seconds",
               value |-> duration, attrs |-> attrs]>>
    /\ pc' = IF handler.err.kind # "nil" THEN "grpcFailed" ELSE "grpcSuccess"
    /\ UNCHANGED <<fn, arg, res, transport, handler, w, rwStatus, logs, ret>>
    /\ UNCHANGED clientVars
    /\ UNCHANGED <<goVars, clockVars>>

\* UnaryServerInterceptor, lines 75-99: error log, converted status returned.
GRPCFail ==
    /\ transport = "grpc"
    /\ pc = "grpcFailed"
    /\ LET err == handler.err
           gst == ToGRPCStatus(err)
           fields == [code |-> GRPCCodeString(gst.code), duration |-> duration,
                      method |-> FullMethod]
       IN /\ logs' = Append(logs,
                IF err.kind = "sem"
                THEN [level |-> "error", msg |-> err.Msg, err |-> err.Err,
                      fields |-> fields]
                ELSE [level |-> "error", msg |-> <<"g", "r", "p", "c", "_", "r", "e", "q",
                        "u", "e", "s", "t", "_", "f", "a", "i", "l", "e", "d">>,
                      err |-> err, fields |-> fields])
          /\ ret' = [kind |-> "returned", resp |-> "nil", err |-> StatusToErr(gst)]
    /\ pc' = "done"
    /\ UNCHANGED <<fn, arg, res, transport, handler, w, rwStatus, metrics>>
    /\ UNCHANGED clientVars
    /\ UNCHANGED <<goVars, clockVars>>

\* UnaryServerInterceptor, lines 102-108: success log, response returned.
GRPCSucceed ==
    /\ transport = "grpc"
    /\ pc = "grpcSuccess"
    /\ logs' = Append(logs,
            [level |-> "info", msg |-> <<"g", "r", "p", "c", "_", "r", "e", "q", "u", "e",
                    "s", "t", "_", "s", "u", "c", "c", "e", "s", "s">>, err |-> NilErr,
             fields |-> [code |-> <<"O", "K">>, duration |-> duration,
                         method |-> FullMethod]])
    /\ ret' = [kind |-> "returned", resp |-> handler.resp, err |-> NilErr]
    /\ pc' = "done"
    /\ UNCHANGED <<fn, arg, res, transport, handler, w, rwStatus, metrics>>
    /\ UNCHANGED clientVars
    /\ UNCHANGED <<goVars, clockVars>>

----------------------------------------------------------------------------
(* Client interceptors: one outbound call *)

ReqURL == <<"h", "t", "t", "p", ":", "/", "/", "u", "/">>

\* The body Error.MarshalJSON gives, as json.NewEncoder writes it.
Encoded(e) == MarshalJSON(e) \o <<"\n">>

\* Bodies an upstream may answer with.
Bodies ==
    {<<>>, <<"K">>, <<"K", "O">>, <<"{", "}">>, <<"n", "u", "l", "l">>, <<"\"", "K",
            "\"">>, <<"1">>}
    \cup {Encoded(Problem(c)) : c \in SampleCodes}
    \cup {Encoded(SemErr(CodeNotFound, <<"K">>, m, <<"O">>, NilErr,
                         [k \in {<<"a">>} |-> <<"K">>])) : m \in Str(MaxMsgLen)}
    \cup {<<"{", "\"", "c", "o", "d", "e", "\"", ":", " ", "\"", "I", "N", "V", "A", "L",
            "I", "D", "\"", ",", " ", "\"", "m", "e", "s", "s", "a", "g", "e", "\"", ":",
                    " ", "\"", "K", "\"", "}">>,
          <<" ", "{", "\"", "c", "o", "d", "e", "\"", ":", "\"", "N", "O", "T", "_", "F",
                  "O", "U", "N", "D", "\"", "}">>,
          <<"{", "\"", "c", "o", "d", "e", "\"", ":", "4", "0", "4", "}">>,
          <<"{", "\"", "c", "o", "d", "e", "\"", ":", "n", "u", "l", "l", ",", "\"", "m",
                  "e", "s", "s", "a", "g", "e", "\"", ":", "\"", "K", "\"", "}">>,
          <<"{", "\"", "m", "e", "s", "s", "a", "g", "e", "\"", ":", "\"", "K", "\"", "}">>,
          <<"{", "\"", "c", "o", "d", "e", "\"", ":", "\"", "N", "O", "T", "_", "F", "O",
                  "U", "N", "D", "\"", ",", "\"", "m", "e", "s", "s", "a", "g", "e", "\"",
                          ":", "1", "}">>,
          <<"{", "\"", "c", "o", "d", "e", "\"", ":", "\"", "N", "O", "T", "_", "F", "O",
                  "U", "N", "D", "\"", ",", "\"", "s", "a", "f", "e", "_", "m", "e", "s",
                          "s", "a", "g", "e", "\"", ":", "\"", "K", "\"", ",", "\"", "o",
                                  "p", "\"", ":", "\"", "O", "\"", ",", "\"", "x", "\"",
                                          ":", "\"", "K", "\"", "}">>,
          <<"{", "\"", "c", "o", "d", "e", "\"", ":", "\"", "N", "O", "T", "_", "F", "O",
                  "U", "N", "D", "\"">>,
          <<"{", "\"", "c", "o", "d", "e", "\"", ":", "\"", "F", "O", "O", "\"", "}">>,
          <<"{", "\"", "c", "o", "d", "e", "\"", ":", "\"", "O", "K", "\"", ",", "\"", "m",
                  "e", "s", "s", "a", "g", "e", "\"", ":", "\"", "K", "\"", "}">>}
    \cup {<<"{", "\"", "c", "o", "d", "e", "\"", ":", "\"", "N", "O", "T", "_", "F", "O",
            "U", "N", "D", "\"", ",", "\"", "m", "e", "s", "s", "a", "g", "e", "\"", ":",
                    "\"">> \o Fill(n) \o <<"\"", "}">> :
            n \in {ReadLimit - 33, ReadLimit - 32, ReadLimit}}
    \cup {Fill(ReadLimit - 1) \o <<"K", "O">>, Fill(ReadLimit) \o <<"K">>}

\* Content-Type headers an upstream may answer with ("": none).
ContentTypes ==
    {<<>>, ApplicationJSON, <<"a", "p", "p", "l", "i", "c", "a", "t", "i", "o", "n", "/",
            "j", "s", "o", "n", ";", " ", "c", "h", "a", "r", "s", "e", "t", "=", "u", "t",
                    "f", "-", "8">>, <<"t", "e", "x", "t", "/", "p", "l", "a", "i", "n">>}

Statuses == {200, 399, 400, 404, 418, 500, 503, 999}

\* What the base transport of an HTTPClient may do with a request.
HTTPUpstreams ==
    {[kind |-> "resp", resp |-> Response(st, ct, b, cl)] :
        st \in Statuses, ct \in ContentTypes, b \in Bodies, cl \in {"nop", "net"}}
    \cup {[kind |-> "fail", err |-> e] :
            e \in {PlainErr(<<"K">>), PlainErr(<<"O">>), Problem(CodeUnavailable)}}

\* What the invoker of a gRPC client call may return.
InvokerErrors ==
    {NilErr, PlainErr(<<"K">>), WrapErr(PlainErr(<<"K">>)), Problem(CodeNotFound)}
    \cup {StatusErr(c, m) : c \in 1..MaxGRPCCode, m \in Str(MaxMsgLen)}

\* The response a client gets from a server whose writer ended as x.  The
\* Content-Type is the one set before the header was written; otherwise
\* net/http sniffs it from the first bytes of the body.
Served(x) ==
    Response(ClientStatus(x),
             IF x.ctSent THEN ApplicationJSON
             ELSE IF x.body = <<>> THEN <<>>
             ELSE <<"t", "e", "x", "t", "/", "p", "l", "a", "i", "n", ";", " ", "c", "h",
                     "a", "r", "s", "e", "t", "=", "u", "t", "f", "-", "8">>,
             x.body, "net")

\* RoundTrip, lines 40-49: trace context injected, c.Base.RoundTrip(req).
\* The upstream is either drawn freely or is the server behind Wrap whose
\* call has just ended.
HTTPClientRoundTrip ==
    /\ \/ /\ transport = "httpclient"
          /\ pc = "start"
          /\ upstream' \in HTTPUpstreams
       \/ /\ transport = "http"
          /\ pc = "done"
          /\ upstream' = [kind |-> "resp", resp |-> Served(w)]
    /\ pc' = "clog"
    /\ UNCHANGED <<fn, arg, res, transport, handler, w, rwStatus, logs, metrics, ret>>
    /\ UNCHANGED <<resp, clogs, out>>
    /\ UNCHANGED <<goVars, clockVars>>

\* Variant of HTTPClientFail: the transport error is classified before it
\* is returned.
HTTPClientFailClassified ==
    /\ pc = "clog"
    /\ upstream.kind = "fail"
    /\ clogs' = Append(clogs,
            [level |-> "error",
             msg |-> <<"o", "u", "t", "b", "o", "u", "n", "d", "_", "r", "e", "q", "u", "e",
                     "s", "t", "_", "f", "a", "i", "l", "e", "d">>,
             err |-> upstream.err,
             fields |-> [method |-> ReqMethod, url |-> ReqURL]])
    /\ out' = [out EXCEPT !.rt = WithErr(Problem(CodeUnavailable), upstream.err)]
    /\ pc' = "returned"
    /\ UNCHANGED <<fn, arg, res, transport, handler, w, rwStatus, logs, metrics, ret>>
    /\ UNCHANGED <<upstream, resp>>
    /\ UNCHANGED <<goVars, clockVars>>

\* RoundTrip, lines 58-61: the transport failed.
HTTPClientFail ==
    /\ pc = "clog"
    /\ upstream.kind = "fail"
    /\ clogs' = Append(clogs,
            [level |-> "error",
             msg |-> <<"o", "u", "t", "b", "o", "u", "n", "d", "_", "r", "e", "q", "u", "e",
                     "s", "t", "_", "f", "a", "i", "l", "e", "d">>,
             err |-> upstream.err,
             fields |-> [method |-> ReqMethod, url |-> ReqURL]])
    /\ out' = [out EXCEPT !.rt = upstream.err]
    /\ pc' = "returned"
    /\ UNCHANGED <<fn, arg, res, transport, handler, w, rwStatus, logs, metrics, ret>>
    /\ UNCHANGED <<upstream, resp>>
    /\ UNCHANGED <<goVars, clockVars>>

\* RoundTrip, lines 63-66: a response was received, whatever its status.
HTTPClientSucceed ==
    /\ pc = "clog"
    /\ upstream.kind = "resp"
    /\ clogs' = Append(clogs,
            [level |-> "info",
             msg |-> <<"o", "u", "t", "b", "o", "u", "n", "d", "_", "r", "e", "q", "u", "e",
                     "s", "t", "_", "s", "u", "c", "c", "e", "s", "s">>,
             err |-> NilErr,
             fields |-> [method |-> ReqMethod, url |-> ReqURL,
                         status |-> upstream.resp.status]])
    /\ resp' = upstream.resp
    /\ out' = [out EXCEPT !.rt = NilErr]
    /\ pc' = "returned"
    /\ UNCHANGED <<fn, arg, res, transport, handler, w, rwStatus, logs, metrics, ret>>
    /\ UNCHANGED upstream
    /\ UNCHANGED <<goVars, clockVars>>

\* The caller hands the response it got to CheckResponse.
CallCheckResponse ==
    /\ pc = "returned"
    /\ upstream.kind = "resp"
    /\ LET r == CheckResponse(resp) IN
        /\ out' = [out EXCEPT !.chk = r.err]
        /\ resp' = r.resp
    /\ pc' = "checked"
    /\ UNCHANGED <<fn, arg, res, transport, handler, w, rwStatus, logs, metrics, ret>>
    /\ UNCHANGED <<upstream, clogs>>
    /\ UNCHANGED <<goVars, clockVars>>

\* The caller reads resp.Body to the end after CheckResponse.
CallReadAll ==
    /\ pc = "checked"
    /\ out' = [out EXCEPT !.read = ReadAll(resp)]
    /\ resp' = IF ReadAll(resp).ok THEN [resp EXCEPT !.body = <<>>] ELSE resp
    /\ pc' = "read"
    /\ UNCHANGED <<fn, arg, res, transport, handler, w, rwStatus, logs, metrics, ret>>
    /\ UNCHANGED <<upstream, clogs>>
    /\ UNCHANGED <<goVars, clockVars>>

\* UnaryClientInterceptor, lines 130-143: trace context injected into the
\* outgoing metadata, invoker called.
GRPCClientInvoke ==
    /\ transport = "grpcclient"
    /\ pc = "start"
    /\ \E e \in InvokerErrors : upstream' = [kind |-> "rpc", err |-> e]
    /\ pc' = "glog"
    /\ UNCHANGED <<fn, arg, res, transport, handler, w, rwStatus, logs, metrics, ret>>
    /\ UNCHANGED <<resp, clogs, out>>
    /\ UNCHANGED <<goVars, clockVars>>

\* UnaryClientInterceptor, lines 151-163 and 167: the invoker failed; an
\* error carrying an RPC status is hydrated, any other is returned as is.
GRPCClientFail ==
    /\ pc = "glog"
    /\ upstream.err # NilErr
    /\ clogs' = Append(clogs,
            [level |-> "error",
             msg |-> <<"o", "u", "t", "b", "o", "u", "n", "d", "_", "r", "p", "c", "_", "f",
                     "a", "i", "l", "e", "d">>,
             err |-> upstream.err,
             fields |-> [method |-> FullMethod]])
    /\ out' = [out EXCEPT !.rt =
            IF upstream.err.kind = "status"
            THEN WithErr(WithMsg(Problem(FromGRPCStatus(upstream.err.code)),
                                 upstream.err.msg),
                         upstream.err)
            ELSE upstream.err]
    /\ pc' = "returned"
    /\ UNCHANGED <<fn, arg, res, transport, handler, w, rwStatus, logs, metrics, ret>>
    /\ UNCHANGED <<upstream, resp>>
    /\ UNCHANGED <<goVars, clockVars>>

\* UnaryClientInterceptor, lines 164-167: the invoker returned nil.
GRPCClientSucceed ==
    /\ pc = "glog"
    /\ upstream.err = NilErr
    /\ clogs' = Append(clogs,
            [level |-> "info",
             msg |-> <<"o", "u", "t", "b", "o", "u", "n", "d", "_", "r", "p", "c", "_", "s",
                     "u", "c", "c", "e", "s", "s">>,
             err |-> NilErr,
             fields |-> [method |-> FullMethod]])
    /\ out' = [out EXCEPT !.rt = NilErr]
    /\ pc' = "returned"
    /\ UNCHANGED <<fn, arg, res, transport, handler, w, rwStatus, logs, metrics, ret>>
    /\ UNCHANGED <<upstream, resp>>
    /\ UNCHANGED <<goVars, clockVars>>

----------------------------------------------------------------------------
(* owl.Go: one safe goroutine *)

\* string(debug.Stack()): the stack of the recovering goroutine, never empty.
DebugStack == <<"g", "o", "r", "o", "u", "t", "i", "n", "e", " ", "7">>

\* fmt.Sprintf("%v", r) for the panic values drawn here.
SprintV(r) == IF r.kind = "string" THEN r.s ELSE Itoa(r.n)

\* Another goroutine calls the cancel function of the context at any
\* moment while the call is in progress.
Cancel ==
    /\ transport = "go"
    /\ ~ctxDone
    /\ pc = "start" \/ goroutine \notin {"none", "exited", "crashed"}
    /\ ctxDone' = TRUE
    /\ UNCHANGED <<fn, arg, res, transport, pc, handler, w, rwStatus, logs, metrics, ret>>
    /\ UNCHANGED <<globals, goroutine, checks, handled>>
    /\ UNCHANGED <<clientVars, clockVars>>

\* Go, lines 64-69 and 99-100: the context is checked, the goroutine is
\* spawned unless it is cancelled, and Go returns.
GoCall ==
    /\ transport = "go"
    /\ pc = "start"
    /\ checks' = Append(checks, ctxDone)
    /\ goroutine' = IF ctxDone THEN "none" ELSE "spawned"
    /\ ret' = [kind |-> "returned"]
    /\ pc' = "goReturned"
    /\ UNCHANGED <<fn, arg, res, transport, handler, w, rwStatus, logs, metrics>>
    /\ UNCHANGED <<ctxDone, globals, handled>>
    /\ UNCHANGED <<clientVars, clockVars>>

\* Variant of GoBegin: the goroutine goes on whatever its check observes.
GoBeginUnchecked ==
    /\ transport = "go"
    /\ goroutine = "spawned"
    /\ checks' = Append(checks, ctxDone)
    /\ goroutine' = "ready"
    /\ UNCHANGED <<fn, arg, res, transport, pc, handler, w, rwStatus, logs, metrics, ret>>
    /\ UNCHANGED <<ctxDone, globals, handled>>
    /\ UNCHANGED <<clientVars, clockVars>>

\* Go, lines 69-74: the goroutine begins, checks the context again and
\* registers the deferred recovery.
GoBegin ==
    /\ transport = "go"
    /\ goroutine = "spawned"
    /\ checks' = Append(checks, ctxDone)
    /\ goroutine' = IF ctxDone THEN "exited" ELSE "ready"
    /\ UNCHANGED <<fn, arg, res, transport, pc, handler, w, rwStatus, logs, metrics, ret>>
    /\ UNCHANGED <<ctxDone, globals, handled>>
    /\ UNCHANGED <<clientVars, clockVars>>

\* Go, line 98: fn(ctx) is entered.
GoRun ==
    /\ transport = "go"
    /\ goroutine = "ready"
    /\ \E t \in Tasks : handler' = t
    /\ goroutine' = "running"
    /\ UNCHANGED <<fn, arg, res, transport, pc, w, rwStatus, logs, metrics, ret>>
    /\ UNCHANGED <<ctxDone, globals, checks, handled>>
    /\ UNCHANGED <<clientVars, clockVars>>

\* Go, lines 98 and 74-76: fn(ctx) returns or panics; the deferred function
\* runs, and recover() reports the panic value.
GoTaskEnd ==
    /\ transport = "go"
    /\ goroutine = "running"
    /\ goroutine' = IF handler.outcome = "panic" THEN "recovered" ELSE "exited"
    /\ UNCHANGED <<fn, arg, res, transport, pc, handler, w, rwStatus, logs, metrics, ret>>
    /\ UNCHANGED <<ctxDone, globals, checks, handled>>
    /\ UNCHANGED <<clientVars, clockVars>>

\* Variant of GoRecoverLog: a panic of the logging call is not recovered.
GoRecoverLogUnguarded ==
    /\ transport = "go"
    /\ goroutine = "recovered"
    /\ logs' = Append(logs,
            [level |-> "error", msg |-> <<"g", "o", "r", "o", "u", "t", "i", "n", "e", "_",
                    "p", "a", "n", "i", "c">>, err |-> NilErr,
             fields |-> [panic |-> SprintV(handler.panicVal), stack |-> DebugStack]])
    /\ goroutine' = IF globals.logger = "panics" THEN "crashed" ELSE "logged"
    /\ UNCHANGED <<fn, arg, res, transport, pc, handler, w, rwStatus, metrics, ret>>
    /\ UNCHANGED <<ctxDone, globals, checks, handled>>
    /\ UNCHANGED <<clientVars, clockVars>>

\* Go, lines 76-87: the stack is captured and Logger.Error called with the
\* formatted panic value and the stack; if the call panics, the inner
\* deferred recover swallows that panic and the recovery goes on.
GoRecoverLog ==
    /\ transport = "go"
    /\ goroutine = "recovered"
    /\ logs' = Append(logs,
            [level |-> "error", msg |-> <<"g", "o", "r", "o", "u", "t", "i", "n", "e", "_",
                    "p", "a", "n", "i", "c">>, err |-> NilErr,
             fields |-> [panic |-> SprintV(handler.panicVal), stack |-> DebugStack]])
    /\ goroutine' = "logged"
    /\ UNCHANGED <<fn, arg, res, transport, pc, handler, w, rwStatus, metrics, ret>>
    /\ UNCHANGED <<ctxDone, globals, checks, handled>>
    /\ UNCHANGED <<clientVars, clockVars>>

\* Variant of GoRecoverCount: the counter is incremented only if a panic
\* handler is set.
GoRecoverCountIfHandled ==
    /\ transport = "go"
    /\ goroutine = "logged"
    /\ metrics' = IF globals.panicHandler # "nil"
                  THEN Append(metrics, [op |-> "Inc", metric |-> "goroutine_panic_total",
                                        attrs |-> <<>>])
                  ELSE metrics
    /\ goroutine' = "counted"
    /\ UNCHANGED <<fn, arg, res, transport, pc, handler, w, rwStatus, logs, ret>>
    /\ UNCHANGED <<ctxDone, globals, checks, handled>>
    /\ UNCHANGED <<clientVars, clockVars>>

\* Go, line 90: GetMonitor().Counter("goroutine_panic_total").Inc(ctx).
GoRecoverCount ==
    /\ transport = "go"
    /\ goroutine = "logged"
    /\ metrics' = Append(metrics, [op |-> "Inc", metric |-> "goroutine_panic_total",
                                   attrs |-> <<>>])
    /\ goroutine' = "counted"
    /\ UNCHANGED <<fn, arg, res, transport, pc, handler, w, rwStatus, logs, ret>>
    /\ UNCHANGED <<ctxDone, globals, checks, handled>>
    /\ UNCHANGED <<clientVars, clockVars>>

\* Go, lines 93-97: the panic handler, if one is set, is called with the
\* recovered value; a panic of the handler leaves the deferred function and
\* the goroutine.
GoRecoverHandler ==
    /\ transport = "go"
    /\ goroutine = "counted"
    /\ handled' = IF globals.panicHandler = "nil" THEN handled
                  ELSE Append(handled, handler.panicVal)
    /\ goroutine' = IF globals.panicHandler = "panics" THEN "crashed" ELSE "exited"
    /\ UNCHANGED <<fn, arg, res, transport, pc, handler, w, rwStatus, logs, metrics, ret>>
    /\ UNCHANGED <<ctxDone, globals, checks>>
    /\ UNCHANGED <<clientVars, clockVars>>

Next ==
    \/ HTTPExtract
    \/ HTTPHandle
    \/ HTTPLogFailure
    \/ HTTPEncodeError
    \/ HTTPLogSuccess
    \/ HTTPMetrics
    \/ HTTPRecoverLog
    \/ HTTPRecoverMetrics
    \/ HTTPRecoverRespond
    \/ GRPCExtract
    \/ GRPCHandle
    \/ GRPCMetrics
    \/ GRPCFail
    \/ GRPCSucceed
    \/ HTTPClientRoundTrip
    \/ HTTPClientFail
    \/ HTTPClientSucceed
    \/ CallCheckResponse
    \/ CallReadAll
    \/ GRPCClientInvoke
    \/ GRPCClientFail
    \/ GRPCClientSucceed
    \/ Cancel
    \/ GoCall
    \/ GoBegin
    \/ GoRun
    \/ GoTaskEnd
    \/ GoRecoverLog
    \/ GoRecoverCount
    \/ GoRecoverHandler

Spec == Init /\ [][Next]_vars

----------------------------------------------------------------------------
(* Properties of the translators, checked under SpecConv *)

\* C7: for each of the eight codes c with an exact HTTP mapping,
\* FromHTTPStatus(ToHTTPStatus(Problem(c))) = c; for Unknown the round trip
\* yields Internal.
HTTPRoundTrip ==
    (fn = <<"Problem", "ToHTTPStatus", "FromHTTPStatus">> /\ arg.t = "code") =>
        /\ arg.v \in MappedCodes => res.v = arg.v
        /\ arg.v = CodeUnknown => res.v = CodeInternal

HTTPRoundTripWitness ==
    /\ fn = <<"Problem", "ToHTTPStatus", "FromHTTPStatus">>
    /\ arg = [t |-> "code", v |-> CodeDeadlineExceeded]
    /\ res = [t |-> "code", v |-> CodeDeadlineExceeded]

\* The table of C8.
StatusTable ==
    (CodeOK :> 200) @@ (CodeInvalid :> 400) @@ (CodeUnauthorized :> 401)
    @@ (CodePermissionDenied :> 403) @@ (CodeNotFound :> 404)
    @@ (CodeInternal :> 500) @@ (CodeUnavailable :> 503)
    @@ (CodeDeadlineExceeded :> 504)

\* C8: ToHTTPStatus is total: nil gives 200; an error that is not and does
\* not wrap a SemanticError gives 500; a SemanticError gives the table value
\* of its code, and 500 when its code is outside the table.
ToHTTPStatusTotal ==
    (fn = <<"ToHTTPStatus">>) =>
        /\ res.t = "status"
        /\ arg.v.kind = "nil" => res.v = 200
        /\ arg.v.kind = "plain" => res.v = 500
        /\ (arg.v.kind = "wrap" /\ arg.v.inner.kind = "plain") => res.v = 500
        /\ arg.v.kind = "sem" =>
              res.v = IF arg.v.Code \in DOMAIN StatusTable
                      THEN StatusTable[arg.v.Code] ELSE 500

ToHTTPStatusTotalWitness ==
    /\ fn = <<"ToHTTPStatus">>
    /\ arg.v.kind = "sem"
    /\ arg.v.Code = 418
    /\ arg.v.Err.kind = "sem"
    /\ res.v = 500

\* C9 as stated: the listed statuses map to their codes, every other status
\* in 400..499 to Invalid, every other status in 500..599 to Internal, and
\* every remaining status to Unknown.
FromHTTPStatusRanges ==
    (fn = <<"FromHTTPStatus">>) =>
        LET n == arg.v IN
        res.v = CASE n \in {200, 201, 202, 204} -> CodeOK
                  [] n \in {400, 401, 403, 404, 500, 503, 504} -> n
                  [] n \in 400..499 -> CodeInvalid
                  [] n \in 500..599 -> CodeInternal
                  [] OTHER -> CodeUnknown

\* C9 amended: as above, but every other status of 500 and above (also
\* above 599) maps to Internal; only the remaining statuses below 400 map
\* to Unknown.
FromHTTPStatusOpenRange ==
    (fn = <<"FromHTTPStatus">>) =>
        LET n == arg.v IN
        res.v = CASE n \in {200, 201, 202, 204} -> CodeOK
                  [] n \in {400, 401, 403, 404, 500, 503, 504} -> n
                  [] n \in 400..499 -> CodeInvalid
                  [] n >= 500 -> CodeInternal
                  [] OTHER -> CodeUnknown

FromHTTPStatusOpenRangeWitness ==
    /\ fn = <<"FromHTTPStatus">>
    /\ arg = [t |-> "status", v |-> 999]
    /\ res = [t |-> "code", v |-> CodeInternal]

\* C10: Code.String is injective over the nine defined codes and gives
\* "UNKNOWN" for every undefined code; Code.UnmarshalJSON of a JSON string
\* never fails, yields the code whose symbol is the string and Unknown for
\* any other string; so parsing String(c) gives back c for a defined c.
SymbolRoundTrip ==
    /\ (fn = <<"String">> /\ arg.v \in DefinedCodes) =>
            \A c \in DefinedCodes \ {arg.v} : String(c) # res.v
    /\ (fn = <<"String">> /\ arg.v \notin DefinedCodes) =>
            res.v = <<"U", "N", "K", "N", "O", "W", "N">>
    /\ (fn = <<"UnmarshalJSON">>) =>
            \A s \in Str(MaxStrLen) \cup {String(c) : c \in DefinedCodes} :
                arg.v = Quote(s) =>
                    /\ res.t = "code"
                    /\ \A c \in DefinedCodes : String(c) = s => res.v = c
                    /\ (\A c \in DefinedCodes : String(c) # s) => res.v = CodeUnknown
    /\ (fn = <<"String", "Quote", "UnmarshalJSON">> /\ arg.v \in DefinedCodes) =>
            res = [t |-> "code", v |-> arg.v]

SymbolRoundTripWitness ==
    /\ fn = <<"String", "Quote", "UnmarshalJSON">>
    /\ arg = [t |-> "code", v |-> CodeUnavailable]
    /\ res = [t |-> "code", v |-> CodeUnavailable]

\* C2 as stated: the serialized form never contains the internal message as
\* a substring unless that string was also set as the safe message.
WireNeverContainsMsg ==
    (fn = <<"MarshalJSON">>) =>
        (Contains(res.v, arg.v.Msg) =>
            (arg.v.SafeMsg # <<>> /\ arg.v.SafeMsg = arg.v.Msg))

\* C2 amended: the serialized form is determined by the code, the safe
\* message and the details alone: it stays the same whatever the internal
\* message, the operation and the cause are.  The internal message occurs
\* in it only where the rendering of that safe projection contains it.
WireIgnoresInternal ==
    (fn = <<"MarshalJSON">>) =>
        /\ \A m \in Str(MaxMsgLen), op \in {<<>>, <<"O">>}, c \in Causes :
                MarshalJSON([arg.v EXCEPT !.Msg = m, !.Op = op, !.Err = c]) = res.v
        /\ Contains(res.v, arg.v.Msg) =>
                Contains(MarshalJSON([arg.v EXCEPT !.Msg = <<>>, !.Err = NilErr]),
                         arg.v.Msg)

WireIgnoresInternalWitness ==
    /\ fn = <<"MarshalJSON">>
    /\ arg.v.Msg = <<"O", "K">>
    /\ arg.v.SafeMsg = <<"K">>
    /\ arg.v.Err.kind = "plain"
    /\ ~Contains(res.v, arg.v.Msg)

\* C11: the RPC code mapping is symmetric on the nine defined codes: the
\* status built from Problem(c) maps back to c; a SemanticError whose code
\* is outside the table maps to RPC Unknown; every RPC code other than the
\* eight mapped ones maps back to Unknown.
RPCSymmetric ==
    /\ (fn = <<"Problem", "ToGRPCStatus", "FromGRPCStatus">> /\ arg.v \in DefinedCodes)
            => (res.t = "code" /\ res.v = arg.v)
    /\ (fn = <<"ToGRPCStatus">> /\ AsError(arg.v).kind = "sem"
            /\ AsError(arg.v).Code \notin MappedCodes)
            => res.v.code = GRPCUnknown
    /\ (fn = <<"FromGRPCStatus">> /\ arg.t = "grpc" /\ arg.v \notin MappedGRPCCodes)
            => res.v = CodeUnknown

RPCSymmetricWitness ==
    /\ fn = <<"Problem", "ToGRPCStatus", "FromGRPCStatus">>
    /\ arg.v = CodeDeadlineExceeded
    /\ res.v = CodeDeadlineExceeded

\* The fixed message of the status built for a non-semantic error.
InternalServerError ==
    <<"i", "n", "t", "e", "r", "n", "a", "l", " ", "s", "e", "r", "v", "e", "r", " ",
      "e", "r", "r", "o", "r">>

\* C12: ToGRPCStatus(nil) is OK; for a SemanticError the status message is
\* its safe message, or the symbolic name of its code when no safe message
\* is set, whatever its internal message is; for a non-semantic error the
\* status is Unknown with one fixed message, whatever the error's text is.
RPCMessageSafe ==
    (fn = <<"ToGRPCStatus">>) =>
        LET e == AsError(arg.v) IN
        /\ arg.v = NilErr => res.v.code = GRPCOK
        /\ e.kind = "sem" =>
            /\ res.v.msg = IF e.SafeMsg # <<>> THEN e.SafeMsg ELSE String(e.Code)
            /\ \A m \in Str(MaxStrLen) : ToGRPCStatus([e EXCEPT !.Msg = m]) = res.v
        /\ (arg.v # NilErr /\ e.kind # "sem") =>
            /\ res.v = StatusNew(GRPCUnknown, InternalServerError)
            /\ \A t \in Str(MaxStrLen) : ToGRPCStatus(PlainErr(t)) = res.v

RPCMessageSafeWitness ==
    /\ fn = <<"ToGRPCStatus">>
    /\ arg.v.kind = "sem"
    /\ arg.v.Msg = <<"K">>
    /\ arg.v.SafeMsg = <<>>
    /\ arg.v.Code = CodeNotFound
    /\ res.v.msg = <<"N", "O", "T", "_", "F", "O", "U", "N", "D">>

\* The positions in opts of the options of one kind.
OptsOf(opts, name) == {i \in DOMAIN opts : opts[i].opt = name}

\* The argument of the last option of one kind, or the empty string.
LastOpt(opts, name) ==
    IF OptsOf(opts, name) = {} THEN <<>>
    ELSE opts[CHOOSE i \in OptsOf(opts, name) : \A j \in OptsOf(opts, name) : j <= i].val

\* The positions of the WithDetails options that hold key k.
DetailsWith(opts, k) == {i \in OptsOf(opts, "WithDetails") : k \in DOMAIN opts[i].val}

\* C19: Problem(code, opts...) is the left-to-right application of the
\* options to an error holding only the code: the last WithMsg, WithSafeMsg
\* and WithOp win; every cause attached with WithErr that errors.Is finds
\* when attached alone (every cause of a comparable type) is still found
\* after later WithErr options; the details are the key-wise union of the
\* WithDetails maps, the last map holding a key giving its value.
OptionsLeftToRight ==
    (fn = <<"ProblemOpts">>) =>
        LET c == arg.v.code
            opts == arg.v.opts
            e == res.v
        IN  /\ e.Code = c
            /\ \A n \in DOMAIN opts :
                    ProblemWith(c, SubSeq(opts, 1, n))
                        = ApplyOption(ProblemWith(c, SubSeq(opts, 1, n - 1)), opts[n])
            /\ e.Msg = LastOpt(opts, "WithMsg")
            /\ e.SafeMsg = LastOpt(opts, "WithSafeMsg")
            /\ e.Op = LastOpt(opts, "WithOp")
            /\ \A i \in OptsOf(opts, "WithErr") :
                    LET x == opts[i].val IN
                    x # NilErr =>
                        /\ Comparable(x) => ErrorsIs(e, x)
                        /\ ErrorsIs(ProblemWith(c, <<opts[i]>>), x) => ErrorsIs(e, x)
            /\ DOMAIN e.Details = UNION {DOMAIN opts[i].val : i \in OptsOf(opts, "WithDetails")}
            /\ \A k \in DOMAIN e.Details :
                    \E i \in DetailsWith(opts, k) :
                        /\ \A j \in DetailsWith(opts, k) : j <= i
                        /\ e.Details[k] = opts[i].val[k]

OptionsLeftToRightWitness ==
    /\ fn = <<"ProblemOpts">>
    /\ arg.v.opts = <<[opt |-> "WithErr", val |-> PlainErr(<<"K">>)],
                      [opt |-> "WithErr", val |-> PlainErr(<<"O">>)]>>
    /\ res.v.Err = [kind |-> "join", errs |-> <<PlainErr(<<"K">>), PlainErr(<<"O">>)>>]
    /\ ErrorsIs(res.v, PlainErr(<<"K">>))

----------------------------------------------------------------------------
(* Properties of the server interceptors, checked under Spec *)

\* The handler wrote a header (explicitly, or implicitly by writing body
\* bytes) before it returned or panicked.
PreWrote == handler.pre.hdr # 0 \/ handler.pre.body # <<>>

\* The status the handler's own writes committed.
PreStatus == IF handler.pre.hdr # 0 THEN handler.pre.hdr ELSE 200

CountOp(op) == Cardinality({i \in DOMAIN metrics : metrics[i].op = op})

HTTPDone(outcome) ==
    transport = "http" /\ pc = "done" /\ handler.outcome = outcome

\* C1: when the handler behind Wrap returns a SemanticError e, the
\* error-level log call receives e's internal message and cause, and the
\* response (status and body) is the same for any error that differs from e
\* only in internal message and cause.
DualChannel ==
    (HTTPDone("err") /\ handler.err.kind = "sem") =>
        /\ Len(logs) = 1
        /\ logs[1].level = "error"
        /\ logs[1].msg = handler.err.Msg
        /\ logs[1].err = handler.err.Err
        /\ \A m \in Str(MaxMsgLen), c \in Causes :
            LET e2 == [handler.err EXCEPT !.Msg = m, !.Err = c]
                w2 == defaultErrorEncoder(AfterPreWrites(NewWriter, handler.pre), e2)
            IN  /\ w2.body = w.body
                /\ ClientStatus(w2) = ClientStatus(w)

DualChannelWitness ==
    /\ HTTPDone("err")
    /\ handler.err.kind = "sem"
    /\ handler.err.Code = CodeUnauthorized
    /\ handler.err.Msg = <<"K">>
    /\ handler.err.SafeMsg = <<"O">>
    /\ handler.err.Err.kind = "plain"
    /\ ~PreWrote
    /\ logs[1].msg = <<"K">>
    /\ ClientStatus(w) = 401
    /\ w.body = <<"{", "\"", "c", "o", "d", "e", "\"", ":", "\"", "U", "N", "A", "U", "T",
            "H", "O", "R", "I", "Z", "E", "D", "\"", ",", "\"", "m", "e", "s", "s", "a",
            "g", "e", "\"", ":", "\"", "O", "\"", "}", "\n">>

\* C3 as stated: a panic of the handler behind Wrap never leaves ServeHTTP,
\* and the client receives status 500.
PanicGives500 ==
    (transport = "http" /\ handler.outcome = "panic") =>
        /\ ret.kind # "panic"
        /\ pc = "done" => (ret.kind = "returned" /\ ClientStatus(w) = 500)

\* C3 amended: a panic of the handler behind Wrap never leaves ServeHTTP;
\* the client receives status 500 when the handler had written no header
\* and no body before it panicked, and otherwise the status the handler's
\* own writes had already committed.
PanicContained ==
    (transport = "http" /\ handler.outcome = "panic") =>
        /\ ret.kind # "panic"
        /\ pc = "done" =>
            /\ ret.kind = "returned"
            /\ ClientStatus(w) = IF PreWrote THEN PreStatus ELSE 500

PanicContainedWitness ==
    /\ HTTPDone("panic")
    /\ ~PreWrote
    /\ ret.kind = "returned"
    /\ ClientStatus(w) = 500

\* C4: a panic of the handler behind the gRPC UnaryServerInterceptor is
\* caught by the interceptor and turned into an Internal error result; it
\* never propagates to the interceptor's caller.
GRPCPanicContained ==
    (transport = "grpc" /\ handler.outcome = "panic") =>
        /\ ret.kind # "panic"
        /\ ret.kind = "returned" =>
            (ret.err.kind = "status" /\ ret.err.code = GRPCInternal)

\* C5: every call through Wrap (handler succeeds, fails or panics) and
\* every call through the gRPC interceptor whose handler returns produces
\* exactly one counter increment and exactly one histogram record.
OneMetricPerCall ==
    /\ CountOp("Inc") <= 1
    /\ CountOp("Record") <= 1
    /\ pc = "done" => (CountOp("Inc") = 1 /\ CountOp("Record") = 1)
    /\ Len(metrics) = CountOp("Inc") + CountOp("Record")

OneMetricPerCallWitness ==
    /\ HTTPDone("panic")
    /\ PreWrote
    /\ CountOp("Inc") = 1
    /\ CountOp("Record") = 1

\* An error that is not and does not wrap a SemanticError.
Unclassified(e) ==
    \/ e.kind \in {"plain", "status"}
    \/ e.kind = "wrap" /\ e.inner.kind = "plain"

\* C6 as stated: when the handler behind Wrap returns an error that is not
\* and does not wrap a SemanticError, the response is status 500 with body
\* code INTERNAL and message Internal Server Error.
UnclassifiedGives500 ==
    (HTTPDone("err") /\ Unclassified(handler.err)) =>
        /\ ClientStatus(w) = 500
        /\ w.body = <<"{", "\"", "c", "o", "d", "e", "\"", ":", "\"", "I", "N", "T", "E",
                "R", "N", "A", "L", "\"", ",", "\"", "m", "e", "s", "s", "a", "g", "e",
                "\"", ":", "\"", "I", "n", "t", "e", "r", "n", "a", "l", " ", "S", "e",
                "r", "v", "e", "r", " ", "E", "r", "r", "o", "r", "\"", "}", "\n">>

\* C6 amended: when the handler behind Wrap returns an error that is not
\* and does not wrap a SemanticError, the encoder writes the body with code
\* INTERNAL and message Internal Server Error after whatever the handler
\* had written, and the status is 500 when the handler had written no
\* header and no body (otherwise the status its writes committed); the
\* response is the same for any two such errors, and the original error is
\* passed only to the error-level log call.
UnclassifiedStarved ==
    (HTTPDone("err") /\ Unclassified(handler.err)) =>
        /\ w.body = handler.pre.body \o <<"{", "\"", "c", "o", "d", "e", "\"", ":", "\"",
                "I", "N", "T", "E", "R", "N", "A", "L", "\"", ",", "\"", "m", "e", "s",
                "s", "a", "g", "e", "\"", ":", "\"", "I", "n", "t", "e", "r", "n", "a",
                "l", " ", "S", "e", "r", "v", "e", "r", " ", "E", "r", "r", "o", "r", "\"",
                "}", "\n">>
        /\ ClientStatus(w) = IF PreWrote THEN PreStatus ELSE 500
        /\ \A e2 \in {e \in HandlerErrors : Unclassified(e)} :
            w = defaultErrorEncoder(AfterPreWrites(NewWriter, handler.pre), e2)
        /\ Len(logs) = 1
        /\ logs[1].level = "error"
        /\ logs[1].err = handler.err

UnclassifiedStarvedWitness ==
    /\ HTTPDone("err")
    /\ handler.err = PlainErr(<<"K">>)
    /\ ~PreWrote
    /\ ClientStatus(w) = 500
    /\ logs[1].err = PlainErr(<<"K">>)

\* The start of a wire body whose code field is the symbolic name of c and
\* whose message field is m.
WireHead(c, m) ==
    <<"{", "\"", "c", "o", "d", "e", "\"", ":">> \o Quote(String(c))
    \o <<",", "\"", "m", "e", "s", "s", "a", "g", "e", "\"", ":">> \o Quote(m)

\* The message the wire shows for e: the safe message, else the symbol.
WireMessage(e) == IF e.SafeMsg # <<>> THEN e.SafeMsg ELSE String(e.Code)

\* C13 as stated: the body written for a SemanticError has the symbolic
\* name as code and the safe message (else the symbolic name) as message;
\* a handler returning Problem(c) with no safe message and no details gets
\* status ToHTTPStatus(c) and the body {"code":symbol,"message":symbol}
\* (NotFound: 404 and {"code":"NOT_FOUND","message":"NOT_FOUND"}).
ProblemOnWire ==
    (HTTPDone("err") /\ handler.err.kind = "sem") =>
        LET e == handler.err
            head == WireHead(e.Code, WireMessage(e))
        IN  /\ SubSeq(w.body, 1, Len(head)) = head
            /\ (e.SafeMsg = <<>> /\ DOMAIN e.Details = {}) =>
                /\ ClientStatus(w) = ToHTTPStatus(e)
                /\ w.body = WireHead(e.Code, String(e.Code)) \o <<"}", "\n">>
            /\ (e.SafeMsg = <<>> /\ DOMAIN e.Details = {} /\ e.Code = CodeNotFound) =>
                /\ ClientStatus(w) = 404
                /\ w.body = <<"{", "\"", "c", "o", "d", "e", "\"", ":", "\"", "N", "O",
                        "T", "_", "F", "O", "U", "N", "D", "\"", ",", "\"", "m", "e", "s",
                        "s", "a", "g", "e", "\"", ":", "\"", "N", "O", "T", "_", "F", "O",
                        "U", "N", "D", "\"", "}", "\n">>

\* C13 amended: the encoder writes, after whatever the handler had written,
\* a body whose code is the symbolic name and whose message is the safe
\* message (else the symbolic name); for Problem(c) with no safe message
\* and no details that body is {"code":symbol,"message":symbol}, and the
\* status is ToHTTPStatus(c) when the handler had written no header and no
\* body (otherwise the status its writes committed).
ProblemOnWireAfterWrites ==
    (HTTPDone("err") /\ handler.err.kind = "sem") =>
        LET e == handler.err
            head == WireHead(e.Code, WireMessage(e))
            pre == handler.pre.body
            sent == SubSeq(w.body, Len(pre) + 1, Len(w.body))
        IN  /\ SubSeq(w.body, 1, Len(pre)) = pre
            /\ SubSeq(sent, 1, Len(head)) = head
            /\ (e.SafeMsg = <<>> /\ DOMAIN e.Details = {}) =>
                /\ ClientStatus(w) = IF PreWrote THEN PreStatus ELSE ToHTTPStatus(e)
                /\ sent = WireHead(e.Code, String(e.Code)) \o <<"}", "\n">>
            /\ (e.SafeMsg = <<>> /\ DOMAIN e.Details = {} /\ e.Code = CodeNotFound
                    /\ ~PreWrote) =>
                /\ ClientStatus(w) = 404
                /\ w.body = <<"{", "\"", "c", "o", "d", "e", "\"", ":", "\"", "N", "O",
                        "T", "_", "F", "O", "U", "N", "D", "\"", ",", "\"", "m", "e", "s",
                        "s", "a", "g", "e", "\"", ":", "\"", "N", "O", "T", "_", "F", "O",
                        "U", "N", "D", "\"", "}", "\n">>

ProblemOnWireAfterWritesWitness ==
    /\ HTTPDone("err")
    /\ handler.err = SemErr(CodeNotFound, <<"K">>, <<>>, <<>>, NilErr, NoDetails)
    /\ ~PreWrote
    /\ ClientStatus(w) = 404
    /\ Len(w.body) = 43

----------------------------------------------------------------------------
(* Properties of the client interceptors, checked under Spec *)

\* The fallback error for a response: the code of its status, its body
\* (at most ReadLimit bytes of it) as the internal message, nothing else.
IsFallback(e, r) ==
    /\ e = SemErr(FromHTTPStatus(r.status), Take(r.body, ReadLimit), <<>>, <<>>,
                   NilErr, NoDetails)
    /\ ByteLen(e.Msg) <= 64 * 1024

BodyRestored ==
    (pc = "read") => (out.read.ok /\ out.read.data = upstream.resp.body)

\* The handler behind Wrap returned a SemanticError with a code that has
\* an exact HTTP mapping other than OK, and the client has hydrated the
\* response.
HydratedFromWrap ==
    /\ transport = "http"
    /\ pc = "checked"
    /\ handler.outcome = "err"
    /\ handler.err.kind = "sem"
    /\ handler.err.Code \in MappedCodes \ {CodeOK}

\* C16 as stated: such an error, hydrated with CheckResponse, is a
\* SemanticError with the same code whose message is the server's safe
\* message, or the symbolic name when there is none; nothing of the
\* server's internal message, operation or cause is in it.
HydrationRoundTrip ==
    HydratedFromWrap =>
        out.chk = SemErr(handler.err.Code, WireMessage(handler.err), <<>>, <<>>, NilErr,
                         handler.err.Details)

\* C16 amended: the same, when the handler had written no header and no
\* body before it returned the error; otherwise the status its writes
\* committed decides, and CheckResponse returns nil when it is below 400.
HydrationRoundTripUnwritten ==
    HydratedFromWrap =>
        /\ ~PreWrote =>
                out.chk = SemErr(handler.err.Code, WireMessage(handler.err), <<>>, <<>>,
                                 NilErr, handler.err.Details)
        /\ (PreWrote /\ PreStatus < 400) => out.chk = NilErr

HydrationRoundTripUnwrittenWitness ==
    /\ HydratedFromWrap
    /\ ~PreWrote
    /\ handler.err = SemErr(CodeNotFound, <<"K">>, <<>>, <<>>, NilErr, NoDetails)
    /\ out.chk.Code = CodeNotFound
    /\ out.chk.Msg = <<"N", "O", "T", "_", "F", "O", "U", "N", "D">>

\* C17: when the transport fails, RoundTrip logs exactly one failure and
\* returns that error unmodified, with no response and no hydration; the
\* gRPC client interceptor returns an error that carries no RPC status
\* unchanged.
TransportFailureUnmodified ==
    /\ (transport = "httpclient" /\ pc = "returned" /\ upstream.kind = "fail") =>
            /\ Len(clogs) = 1
            /\ clogs[1].level = "error"
            /\ clogs[1].err = upstream.err
            /\ out.rt = upstream.err
            /\ resp = NoResp
            /\ out.chk = NoResult
    /\ (transport = "grpcclient" /\ pc = "returned" /\ upstream.err # NilErr
            /\ upstream.err.kind # "status") =>
            /\ out.rt = upstream.err
            /\ Len(clogs) = 1
            /\ clogs[1].level = "error"

TransportFailureUnmodifiedWitness ==
    /\ transport = "httpclient"
    /\ pc = "returned"
    /\ upstream = [kind |-> "fail", err |-> PlainErr(<<"K">>)]
    /\ out.rt = PlainErr(<<"K">>)
    /\ Len(clogs) = 1

\* C18: with HTTPClient as the transport, when the upstream answers with a
\* status >= 400 and a JSON error body, the error RoundTrip returns to the
\* caller is a hydrated SemanticError carrying the remote code and
\* message.
ClientHydrates ==
    (transport = "httpclient" /\ pc = "returned" /\ upstream.kind = "resp"
        /\ upstream.resp.status >= 400
        /\ upstream.resp.ct = ApplicationJSON
        /\ \E c \in MappedCodes : upstream.resp.body = Encoded(Problem(c))) =>
        /\ out.rt.kind = "sem"
        /\ upstream.resp.body = Encoded(Problem(out.rt.Code))
        /\ out.rt.Msg = String(out.rt.Code)

----------------------------------------------------------------------------
(* Claims about the translators, continued *)

\* C29: FromHTTPStatus returns Internal for every status of 500 and above
\* other than 503 and 504, values above 599 included, and Invalid for every
\* status in 400..499 that has no case of its own.
FromHTTPStatusFallbacks ==
    (fn = <<"FromHTTPStatus">>) =>
        LET n == arg.v IN
        /\ (n >= 500 /\ n \notin {503, 504}) => res.v = CodeInternal
        /\ (n \in 400..499 /\ n \notin {400, 401, 403, 404}) => res.v = CodeInvalid

FromHTTPStatusFallbacksWitness ==
    /\ fn = <<"FromHTTPStatus">>
    /\ arg = [t |-> "status", v |-> 418]
    /\ res = [t |-> "code", v |-> CodeInvalid]

----------------------------------------------------------------------------
(* Claims about what the server interceptors record *)

\* C28: in the gRPC server interceptor, the code tag of the counter
\* increment and of the histogram record names the status code returned to
\* the caller, ToGRPCStatus(err).Code(), for every error the handler
\* returns, and OK for a successful call.
GRPCTagIsReturnedCode ==
    (transport = "grpc" /\ pc = "done" /\ ret.kind = "returned") =>
        /\ StatusToErr(ToGRPCStatus(handler.err)) = ret.err
        /\ \A i \in DOMAIN metrics :
            metrics[i].attrs.code = GRPCCodeString(ToGRPCStatus(handler.err).code)

\* The call went through Wrap and ServeHTTP has returned.
HTTPReturned == transport = "http" /\ ret.kind = "returned"

\* C24: when the handler behind Wrap panics, recovery makes one error-level
\* log call that carries the panic value and a captured stack trace, and
\* increments the counter once with the panic tag.
HTTPPanicLogged ==
    (HTTPReturned /\ handler.outcome = "panic") =>
        /\ Len(logs) = 1
        /\ logs[1].level = "error"
        /\ "panic" \in DOMAIN logs[1].fields
        /\ logs[1].fields.panic = handler.panicVal
        /\ "stack" \in DOMAIN logs[1].fields
        /\ logs[1].fields.stack # <<>>
        /\ Cardinality({i \in DOMAIN metrics :
                /\ metrics[i].op = "Inc"
                /\ "panic" \in DOMAIN metrics[i].attrs}) = 1

\* C25: in the server interceptors the timer is started when trace
\* extraction is over, just before the handler is invoked, so the duration
\* handed to the histogram and to the log line is the time the handler ran
\* for.
DurationIsHandlerTime ==
    (transport \in {"http", "grpc"}) =>
        /\ pc = "exec" => start = now
        /\ \A i \in DOMAIN metrics :
            metrics[i].op = "Record" => metrics[i].value = HandlerTicks
        /\ \A i \in DOMAIN logs :
            "duration" \in DOMAIN logs[i].fields => logs[i].fields.duration = HandlerTicks

\* The interceptor itself has written to the response or has returned.
Responded ==
    \/ ret.kind = "returned"
    \/ transport = "http" /\ handler.outcome # "none"
        /\ w # AfterPreWrites(NewWriter, handler.pre)

\* C26: a call through a server interceptor records its metrics (one
\* counter increment, one histogram record) before the outcome log line is
\* emitted and before the response is written or returned.
MetricsBeforeLogAndResponse ==
    (transport \in {"http", "grpc"}) =>
        /\ logs # <<>> => Len(metrics) = 2
        /\ Responded => Len(metrics) = 2

\* C27: every counter increment and histogram record made by Wrap carries
\* a method tag and a status tag, on the success, failure and panic paths.
HTTPMetricTags ==
    transport = "http" =>
        \A i \in DOMAIN metrics :
            /\ "method" \in DOMAIN metrics[i].attrs
            /\ "status" \in DOMAIN metrics[i].attrs
            /\ metrics[i].attrs.method = ReqMethod

\* C30: for a call through Wrap, the status in the metrics tags and in the
\* log line is the status the underlying writer delivered to the client,
\* also when the handler wrote a header or body before it returned an error
\* or panicked.
RecordedStatusIsDelivered ==
    HTTPReturned =>
        /\ \A i \in DOMAIN metrics : metrics[i].attrs.status = Itoa(ClientStatus(w))
        /\ \A i \in DOMAIN logs :
            "status" \in DOMAIN logs[i].fields => logs[i].fields.status = ClientStatus(w)

----------------------------------------------------------------------------
(* Claims about owl.Go *)

GoEnded == transport = "go" /\ goroutine \in {"exited", "crashed"}

\* What each ctx.Err() check of Go observed, and what followed from it.
GoChecked ==
    transport = "go" =>
        /\ (checks # <<>> /\ checks[1]) =>
            (Len(checks) = 1 /\ goroutine = "none" /\ handler.outcome = "none")
        /\ (Len(checks) = 2 /\ checks[2]) =>
            (goroutine = "exited" /\ handler.outcome = "none")
        /\ handler.outcome # "none" => checks = <<FALSE, FALSE>>

\* A running task is left only by the task itself, returning or panicking.
GoNotPreempted ==
    (transport = "go" /\ goroutine = "running") =>
        /\ handler' = handler
        /\ goroutine' \in
            {"running", IF handler.outcome = "panic" THEN "recovered" ELSE "exited"}

\* C21: Go does not start a goroutine when the context is already cancelled
\* at the call, and the goroutine does not run the task when the context is
\* cancelled before the goroutine begins; the task runs only if both checks
\* saw the context uncancelled, and once it runs, a later cancellation does
\* not stop it: it ends by returning or by its own panic.
GoRespectsContext == []GoChecked /\ [][GoNotPreempted]_vars

\* The task ran to its end although the context was cancelled after the
\* second check.
GoRespectsContextWitness ==
    /\ transport = "go"
    /\ ctxDone
    /\ checks = <<FALSE, FALSE>>
    /\ goroutine = "exited"
    /\ handler.outcome = "ok"

GoPanicLogEntry ==
    [level |-> "error", msg |-> <<"g", "o", "r", "o", "u", "t", "i", "n", "e", "_", "p",
            "a", "n", "i", "c">>, err |-> NilErr,
     fields |-> [panic |-> SprintV(handler.panicVal), stack |-> DebugStack]]

GoPanicCount == [op |-> "Inc", metric |-> "goroutine_panic_total", attrs |-> <<>>]

\* C22: a panic of a task started with Go is recovered inside the goroutine
\* (the only panic that can leave the goroutine is one the panic handler
\* raises itself); recovery makes, in this order, one error-level log call
\* carrying the formatted panic value and a non-empty stack, one increment
\* of goroutine_panic_total and, if a panic handler is set, one call of it
\* with the original panic value; a task that returns causes none of them.
GoPanicRecovered ==
    transport = "go" =>
        /\ Len(logs) <= 1 /\ Len(metrics) <= 1 /\ Len(handled) <= 1
        /\ metrics # <<>> => logs # <<>>
        /\ handled # <<>> => metrics # <<>>
        /\ goroutine = "crashed" => (globals.panicHandler = "panics" /\ handled # <<>>)
        /\ handler.outcome # "panic" => (logs = <<>> /\ metrics = <<>> /\ handled = <<>>)
        /\ (GoEnded /\ handler.outcome = "panic") =>
            /\ logs = <<GoPanicLogEntry>>
            /\ logs[1].fields.stack # <<>>
            /\ metrics = <<GoPanicCount>>
            /\ handled = IF globals.panicHandler = "nil" THEN <<>>
                         ELSE <<handler.panicVal>>

GoPanicRecoveredWitness ==
    /\ transport = "go"
    /\ goroutine = "exited"
    /\ globals = [logger |-> "returns", panicHandler |-> "returns"]
    /\ handler.outcome = "panic"
    /\ handler.panicVal = [kind |-> "int", n |-> 7]
    /\ logs[1].fields.panic = <<"7">>
    /\ Len(metrics) = 1
    /\ handled = <<[kind |-> "int", n |-> 7]>>

====
